---- MODULE Spec2Model ----
(***************************************************************************)
(* Request scheduling core of the torrent client: the piece request order *)
(* (PieceRequestOrder), the requestable piece selector                    *)
(* (GetRequestablePieces), the piece and peer comparators and the         *)
(* per-piece peer allocator (allocatePendingChunks).                      *)
(***************************************************************************)
EXTENDS Integers, Sequences, FiniteSets, TLC

(***************************************************************************)
(* Bounds of the model.                                                    *)
(***************************************************************************)
\* Peers of the torrent: their Ids are 1..NumPeers.
NumPeers == 2
\* Requestable pieces allocated in one run: their indices are 0..NumPieces-1.
NumPieces == 2
\* Torrent.ChunksPerPiece.
ChunksPerPiece == 2
\* Peer.MaxRequests is drawn from 0..MaxMaxRequests.
MaxMaxRequests == 2

PeerIds == 1..NumPeers
PieceIndexes == 0..(NumPieces - 1)
ChunkIndexes == 0..(ChunksPerPiece - 1)

(***************************************************************************)
(* multiless.Computation, as the comparators use it: a comparison that is *)
(* either undecided (ok = FALSE) or decided with the answer "less".        *)
(***************************************************************************)
MlNew == [ok |-> FALSE, less |-> FALSE]

MlEagerSameLess(me, same, less) ==
    IF me.ok \/ same THEN me ELSE [ok |-> TRUE, less |-> less]

MlInt(me, l, r) == MlEagerSameLess(me, l = r, l < r)

\* Bool orders FALSE before TRUE.
MlBool(me, l, r) == MlEagerSameLess(me, l = r, r)

MlAndThen(me, then) == IF me.ok THEN me ELSE then

\* MustLess returns the answer of a decided comparison and panics on an
\* undecided one (MlMustLessPanics).
MlMustLess(me) == me.less

MlMustLessPanics(me) == ~me.ok

\* Lazy runs the deferred comparison only when the earlier keys tie.
MlLazy(me, then) == IF me.ok THEN me ELSE then

MlCmp(me, i) == MlEagerSameLess(me, i = 0, i < 0)

MlLess(me) == me.less

MlOk(me) == me.ok

\* Int64, Uintptr and Float64 compare as Int does (no rate is NaN).
MlInt64(me, l, r) == MlEagerSameLess(me, l = r, l < r)

MlUintptr(me, l, r) == MlEagerSameLess(me, l = r, l < r)

MlFloat64(me, l, r) == MlEagerSameLess(me, l = r, l < r)

MlUint32(me, l, r) == MlEagerSameLess(me, l = r, l < r)

(***************************************************************************)
(* Pieces and the piece order.                                             *)
(***************************************************************************)
\* metainfo.Hash values (20 bytes in the program, HashLen bytes here).
InfoHashes == {<<0, 2>>, <<1, 0>>}

\* piecePriority: None, Normal, High.
Priorities == 0..2

\* Piece.Availability is drawn from 0..MaxAvailability.
MaxAvailability == 1

Availabilities == 0..MaxAvailability

\* PieceRequestOrderKey: the pieces of two torrents, the second of one piece.
PieceRequestOrderKeys ==
    {k \in [InfoHash : InfoHashes, Index : {0, 1}] :
        k.InfoHash = <<1, 0>> => k.Index = 0}

\* PieceRequestOrderState of a piece not yet partial, at priority None or
\* Normal (the zero state is among them).
PieceRequestOrderStates ==
    [Priority : {0, 1}, Partial : {FALSE}, Availability : Availabilities]

\* filterPiece, less the fields of Piece the order does not read.
FilterPieces ==
    [InfoHash : InfoHashes, index : {0, 1}, Priority : {1, 2},
     Partial : BOOLEAN, Availability : Availabilities]

\* The zero value a Go map lookup returns for an absent key.
ZeroState == [Priority |-> 0, Partial |-> FALSE, Availability |-> 0]

\* bytes.Compare: -1, 0 or 1 by the first differing byte.
RECURSIVE BytesCompare(_, _)
BytesCompare(a, b) ==
    IF a = <<>> /\ b = <<>> THEN 0
    ELSE IF a = <<>> THEN -1
    ELSE IF b = <<>> THEN 1
    ELSE IF Head(a) < Head(b) THEN -1
    ELSE IF Head(a) > Head(b) THEN 1
    ELSE BytesCompare(Tail(a), Tail(b))

\* sortFilterPiecesCmp with the Partial operands not swapped.
sortFilterPiecesCmpPartialLast(i, j) ==
    MlLazy(
        MlInt(
            MlInt(
                MlBool(
                    MlInt(MlNew, j.Priority, i.Priority),
                    i.Partial, j.Partial),
                i.Availability, j.Availability),
            i.index, j.index),
        MlCmp(MlNew, BytesCompare(i.InfoHash, j.InfoHash)))

\* The comparison sortFilterPieces hands to sort.Slice, on two filterPieces
\* [InfoHash, index, Priority, Partial, Availability], before MustLess.
sortFilterPiecesCmp(i, j) ==
    MlLazy(
        MlInt(
            MlInt(
                MlBool(
                    MlInt(MlNew, j.Priority, i.Priority),
                    j.Partial, i.Partial),
                i.Availability, j.Availability),
            i.index, j.index),
        MlCmp(MlNew, BytesCompare(i.InfoHash, j.InfoHash)))

sortFilterPiecesLess(i, j) == MlMustLess(sortFilterPiecesCmp(i, j))

sortFilterPiecesPanics(i, j) == MlMustLessPanics(sortFilterPiecesCmp(i, j))

\* sort.Slice(indices, less) in sortFilterPieces: the indices into pieces in
\* ascending order of the pieces they name. The comparison is a strict total
\* order on pieces of distinct (InfoHash, index), so every sorting algorithm
\* returns the same permutation; the model inserts one index at a time.
RECURSIVE InsertIndex(_, _, _)
InsertIndex(pieces, sorted, x) ==
    IF sorted = << >> THEN <<x>>
    ELSE IF sortFilterPiecesLess(pieces[x], pieces[Head(sorted)])
         THEN <<x>> \o sorted
         ELSE <<Head(sorted)>> \o InsertIndex(pieces, Tail(sorted), x)

RECURSIVE sortFilterPieces(_, _)
sortFilterPieces(pieces, indices) ==
    IF indices = << >> THEN << >>
    ELSE InsertIndex(pieces, sortFilterPieces(pieces, Tail(indices)),
                     Head(indices))

reorderedFilterPieces(pieces, indices) ==
    [n \in 1..Len(indices) |-> pieces[indices[n]]]

\* getSortedFilterPieces: the memo of earlier orderings is keyed by the five
\* fields the comparison reads, so a reused ordering is the one a fresh sort
\* gives.
getSortedFilterPieces(unsorted) ==
    reorderedFilterPieces(unsorted,
        sortFilterPieces(unsorted, [n \in 1..Len(unsorted) |-> n]))

\* pieceOrderLess on two pieceOrderInputs (a key and a state embedded).
pieceOrderLess(i, j) ==
    MlLazy(
        MlInt(
            MlInt(
                MlBool(
                    MlInt(MlNew, j.state.Priority, i.state.Priority),
                    j.state.Partial, i.state.Partial),
                i.state.Availability, j.state.Availability),
            i.key.Index, j.key.Index),
        MlCmp(MlNew, BytesCompare(i.key.InfoHash, j.key.InfoHash)))

\* pieceRequestOrderItem.Less
ItemLess(me, other) == MlLess(pieceOrderLess(me, other))

(***************************************************************************)
(* The ordered tree of PieceRequestOrder (a btree.BTree of                 *)
(* pieceRequestOrderItems), as the sequence of its items in ascending      *)
(* order. An item is [key, state]. Two items are the same item to the tree *)
(* when neither is Less than the other.                                    *)
(***************************************************************************)
\* The place the tree looks for an item: the first position whose item the
\* given item is Less than (Len + 1 when there is none).
TreeFind(t, item) ==
    IF \E n \in 1..Len(t) : ItemLess(item, t[n])
    THEN CHOOSE n \in 1..Len(t) :
            /\ ItemLess(item, t[n])
            /\ \A m \in 1..(n - 1) : ~ItemLess(item, t[m])
    ELSE Len(t) + 1

TreeFound(t, item) ==
    LET n == TreeFind(t, item) IN n > 1 /\ ~ItemLess(t[n - 1], item)

\* BTree.ReplaceOrInsert: [tree, old], old the set of the item replaced
\* (empty for nil).
TreeReplaceOrInsert(t, item) ==
    LET n == TreeFind(t, item) IN
    IF TreeFound(t, item)
    THEN [tree |-> [t EXCEPT ![n - 1] = item], old |-> {t[n - 1]}]
    ELSE [tree |-> SubSeq(t, 1, n - 1) \o <<item>> \o SubSeq(t, n, Len(t)),
          old |-> {}]

\* BTree.Delete: [tree, old], old the set of the item removed (empty for nil).
TreeDelete(t, item) ==
    LET n == TreeFind(t, item) IN
    IF TreeFound(t, item)
    THEN [tree |-> SubSeq(t, 1, n - 2) \o SubSeq(t, n, Len(t)),
          old |-> {t[n - 1]}]
    ELSE [tree |-> t, old |-> {}]

VARIABLES
    \* PieceRequestOrder
    keys,           \* me.keys: PieceRequestOrderKey -> PieceRequestOrderState
    tree,           \* me.tree
    poiCall,        \* the last call made on the index and how it ended
    \* sortFilterPieces
    sortPieces,     \* pieces []filterPiece
    sortIndices,    \* indices []int
    \* GetRequestablePieces
    input,          \* input Input
    pieces,         \* pieces []filterPiece, sorted
    rpsPos,         \* the position in pieces the loop visits next; 0 before
    storageLeft,    \* storageLeft *int64: {} for nil, {n} for a pointer to n
    torrentUnverifiedBytes,
    allTorrentsUnverifiedBytes,
    yielded,        \* the calls of f so far, each [InfoHash, index]
    \* peersForPieceSorter
    sorter,         \* [peersForPiece, req, p], and whether sort.Sort has run
    \* allocatePendingChunks
    peers,          \* the requestsPeer of each Id
    alloc,          \* the call in progress: its arguments and its locals
    allocated,      \* how many pieces allocatePendingChunks has returned for
    allocPanic,     \* the panic that ended the run, "" if none
    \* Peer.maybeUpdateActualRequestState
    rsPeer,         \* the Peer p, and p.t's pieces and pendingRequests
    rsPass          \* the last pass: what it desired and what it emitted

poiVars == <<keys, tree, poiCall>>

sortVars == <<sortPieces, sortIndices>>

rpsVars == <<input, pieces, rpsPos, storageLeft, torrentUnverifiedBytes,
             allTorrentsUnverifiedBytes, yielded>>

ppaVars == <<peers, alloc, allocated, allocPanic>>

rsVars == <<rsPeer, rsPass>>

vars == <<poiVars, sortVars, rpsVars, sorter, ppaVars, rsVars>>

\* What the steps of each part of the model leave alone.
poiOthers == <<sortVars, rpsVars, sorter, ppaVars, rsVars>>

sortOthers == <<poiVars, rpsVars, sorter, ppaVars, rsVars>>

rpsOthers == <<poiVars, sortVars, sorter, ppaVars, rsVars>>

sorterOthers == <<poiVars, sortVars, rpsVars, ppaVars, rsVars>>

ppaOthers == <<poiVars, sortVars, rpsVars, sorter, rsVars>>

rsOthers == <<poiVars, sortVars, rpsVars, sorter, ppaVars>>

\* The parts of the state a specification does not use stay as they are here.
poiIdle ==
    /\ keys = << >>
    /\ tree = << >>
    /\ poiCall = [op |-> "none", key |-> {}, result |-> "ok"]

sortIdle ==
    /\ sortPieces = << >>
    /\ sortIndices = << >>

rsIdle ==
    /\ rsPeer = << >>
    /\ rsPass = << >>

ppaIdle ==
    /\ peers = << >>
    /\ alloc = [active |-> FALSE]
    /\ allocated = 0
    /\ allocPanic = ""

sorterIdle ==
    sorter = [peersForPiece |-> << >>, req |-> {},
              p |-> [alwaysReallocate |-> FALSE], sorted |-> FALSE]

rpsIdle ==
    /\ input = [Torrents |-> << >>, Capacity |-> {}, MaxUnverifiedBytes |-> 0]
    /\ pieces = << >>
    /\ rpsPos = 0
    /\ storageLeft = {}
    /\ torrentUnverifiedBytes = << >>
    /\ allTorrentsUnverifiedBytes = 0
    /\ yielded = << >>

\* NewPieceOrder
poiInit ==
    /\ keys = << >>
    /\ tree = << >>
    /\ poiCall = [op |-> "NewPieceOrder", key |-> {}, result |-> "ok"]

\* PieceRequestOrder.existingItemForKey
existingItemForKey(key) ==
    [key |-> key,
     state |-> IF key \in DOMAIN keys THEN keys[key] ELSE ZeroState]

MapSet(m, k, v) == [x \in DOMAIN m \cup {k} |-> IF x = k THEN v ELSE m[x]]

MapDelete(m, k) == [x \in DOMAIN m \ {k} |-> m[x]]

\* The record of a call: the method, the key it was given, how it ended.
Called(op, key, result) == [op |-> op, key |-> {key}, result |-> result]

\* PieceRequestOrder.Add
Add(key, state) ==
    IF key \in DOMAIN keys
    THEN /\ poiCall' = Called("Add", key, "panic")
         /\ UNCHANGED <<keys, tree>>
    ELSE LET r == TreeReplaceOrInsert(tree, [key |-> key, state |-> state]) IN
         IF r.old # {}
         THEN /\ tree' = r.tree
              /\ poiCall' = Called("Add", key, "panic")
              /\ UNCHANGED keys
         ELSE /\ tree' = r.tree
              /\ keys' = MapSet(keys, key, state)
              /\ poiCall' = Called("Add", key, "ok")

\* Update that inserts the new item without looking at what Delete returned.
UpdateUnchecked(key, state) ==
    LET d == TreeDelete(tree, existingItemForKey(key))
        r == TreeReplaceOrInsert(d.tree, [key |-> key, state |-> state]) IN
    /\ tree' = r.tree
    /\ keys' = MapSet(keys, key, state)
    /\ poiCall' = Called("Update", key, "ok")

\* Update that leaves the old item in the tree.
UpdateKeepOld(key, state) ==
    IF key \notin DOMAIN keys
    THEN /\ poiCall' = Called("Update", key, "panic")
         /\ UNCHANGED <<keys, tree>>
    ELSE LET r == TreeReplaceOrInsert(tree, [key |-> key, state |-> state]) IN
         /\ tree' = r.tree
         /\ keys' = MapSet(keys, key, state)
         /\ poiCall' = Called("Update", key, "ok")

\* PieceRequestOrder.Update
Update(key, state) ==
    LET d == TreeDelete(tree, existingItemForKey(key)) IN
    IF d.old = {}
    THEN /\ tree' = d.tree
         /\ poiCall' = Called("Update", key, "panic")
         /\ UNCHANGED keys
    ELSE LET r == TreeReplaceOrInsert(d.tree, [key |-> key, state |-> state]) IN
         IF r.old # {}
         THEN /\ tree' = r.tree
              /\ poiCall' = Called("Update", key, "panic")
              /\ UNCHANGED keys
         ELSE /\ tree' = r.tree
              /\ keys' = MapSet(keys, key, state)
              /\ poiCall' = Called("Update", key, "ok")

\* PieceRequestOrder.Delete
Delete(key) ==
    LET d == TreeDelete(tree, existingItemForKey(key)) IN
    IF d.old = {}
    THEN /\ tree' = d.tree
         /\ poiCall' = Called("Delete", key, "panic")
         /\ UNCHANGED keys
    ELSE /\ tree' = d.tree
         /\ keys' = MapDelete(keys, key)
         /\ poiCall' = Called("Delete", key, "ok")

InitPOI == poiInit /\ sortIdle /\ rpsIdle /\ sorterIdle /\ ppaIdle /\ rsIdle

NextPOI ==
    \/ \E key \in PieceRequestOrderKeys, state \in PieceRequestOrderStates :
          Add(key, state) /\ UNCHANGED poiOthers
    \/ \E key \in PieceRequestOrderKeys, state \in PieceRequestOrderStates :
          Update(key, state) /\ UNCHANGED poiOthers
    \/ \E key \in PieceRequestOrderKeys :
          Delete(key) /\ UNCHANGED poiOthers

SpecPOI == InitPOI /\ [][NextPOI]_vars

(***************************************************************************)
(* One-shot sort of a slice of pieces (sortFilterPieces).                  *)
(***************************************************************************)
\* A slice of three pieces of distinct (InfoHash, index), not yet sorted.
sortInit ==
    /\ sortPieces \in
          {ps \in [1..3 -> FilterPieces] :
              \A m, n \in 1..3 :
                  m # n => <<ps[m].InfoHash, ps[m].index>>
                              # <<ps[n].InfoHash, ps[n].index>>}
    /\ sortIndices = << >>

\* getSortedFilterPieces on a slice no earlier ordering matches.
SortFilterPieces ==
    /\ sortIndices = << >>
    /\ sortIndices' =
          sortFilterPieces(sortPieces, [n \in 1..Len(sortPieces) |-> n])
    /\ UNCHANGED sortPieces

InitSort == sortInit /\ poiIdle /\ rpsIdle /\ sorterIdle /\ ppaIdle /\ rsIdle

NextSort == SortFilterPieces /\ UNCHANGED sortOthers

SpecSort == InitSort /\ [][NextSort]_vars

(***************************************************************************)
(* GetRequestablePieces.                                                   *)
(***************************************************************************)
\* Piece.Length of the pieces of the inputs.
Lengths == {3, 5, 6}

\* Input.Capacity of the inputs that have one.
CapacityBytes == 10

\* Torrent.MaxUnverifiedBytes of the torrents that set one.
TorrentMaxUnverifiedBytes == 5

\* Input.MaxUnverifiedBytes of the inputs that set one.
InputMaxUnverifiedBytes == 9

\* Piece: requested with chunks pending, not requested, or nothing pending.
InputPieces(priorities) ==
    {pc \in [Priority : priorities, Partial : {FALSE}, Availability : {0},
             Length : Lengths, Request : BOOLEAN, NumPendingChunks : {0, 2}] :
        pc.Request \/ pc.NumPendingChunks > 0}

\* Input: a torrent of two pieces and a torrent of one, sharing a capacity.
Inputs ==
    [Torrents :
        {<<[InfoHash |-> <<0, 2>>, MaxUnverifiedBytes |-> m1,
            Pieces |-> <<p1, p2>>],
           [InfoHash |-> <<1, 0>>, MaxUnverifiedBytes |-> m2,
            Pieces |-> <<p3>>]>> :
           m1 \in {0, TorrentMaxUnverifiedBytes},
           m2 \in {0, TorrentMaxUnverifiedBytes},
           p1 \in InputPieces({1, 2}), p2 \in InputPieces({1}),
           p3 \in InputPieces({1, 2})},
     Capacity : {{}, {CapacityBytes}},
     MaxUnverifiedBytes : {0, InputMaxUnverifiedBytes}]

rpsInit ==
    /\ input \in Inputs
    /\ pieces = << >>
    /\ rpsPos = 0
    /\ storageLeft = {}
    /\ torrentUnverifiedBytes = << >>
    /\ allTorrentsUnverifiedBytes = 0
    /\ yielded = << >>

\* filterPiece{t, index, Piece}: the piece with its torrent's InfoHash and
\* MaxUnverifiedBytes (read through t) beside it.
filterPiece(t, i) ==
    [InfoHash |-> t.InfoHash, MaxUnverifiedBytes |-> t.MaxUnverifiedBytes,
     index |-> i - 1,
     Priority |-> t.Pieces[i].Priority, Partial |-> t.Pieces[i].Partial,
     Availability |-> t.Pieces[i].Availability,
     Length |-> t.Pieces[i].Length, Request |-> t.Pieces[i].Request,
     NumPendingChunks |-> t.Pieces[i].NumPendingChunks]

\* The pieces of the torrents from position n on, torrent by torrent.
RECURSIVE AllFilterPieces(_, _)
AllFilterPieces(torrents, n) ==
    IF n > Len(torrents) THEN << >>
    ELSE [i \in 1..Len(torrents[n].Pieces) |-> filterPiece(torrents[n], i)]
            \o AllFilterPieces(torrents, n + 1)

\* GetRequestablePieces up to its loop: the pieces collected and sorted, the
\* copy of the capacity, the counters at zero.
RpsBegin ==
    /\ rpsPos = 0
    /\ input.Torrents # << >>
    /\ pieces' = getSortedFilterPieces(AllFilterPieces(input.Torrents, 1))
    /\ storageLeft' = input.Capacity
    /\ torrentUnverifiedBytes' =
          [h \in {input.Torrents[n].InfoHash : n \in DOMAIN input.Torrents}
              |-> 0]
    /\ allTorrentsUnverifiedBytes' = 0
    /\ yielded' = << >>
    /\ rpsPos' = 1
    /\ UNCHANGED input

\* The local state of the loop.
RpsState ==
    [storageLeft |-> storageLeft,
     torrentUnverifiedBytes |-> torrentUnverifiedBytes,
     allTorrentsUnverifiedBytes |-> allTorrentsUnverifiedBytes,
     yielded |-> yielded]

\* The value *left holds.
Deref(ptr) == CHOOSE n \in ptr : TRUE

\* The loop body that debits the storage only for a piece it yields.
VisitPieceDebitLate(st, in, piece) ==
    IF st.storageLeft # {} /\ Deref(st.storageLeft) < piece.Length
    THEN st
    ELSE IF ~piece.Request \/ piece.NumPendingChunks = 0
    THEN st
    ELSE IF /\ piece.MaxUnverifiedBytes # 0
            /\ st.torrentUnverifiedBytes[piece.InfoHash] + piece.Length
                  > piece.MaxUnverifiedBytes
    THEN st
    ELSE IF /\ in.MaxUnverifiedBytes # 0
            /\ st.allTorrentsUnverifiedBytes + piece.Length
                  > in.MaxUnverifiedBytes
    THEN st
    ELSE [storageLeft |->
             IF st.storageLeft = {} THEN {}
             ELSE {Deref(st.storageLeft) - piece.Length},
          torrentUnverifiedBytes |->
             [st.torrentUnverifiedBytes EXCEPT ![piece.InfoHash] =
                 @ + piece.Length],
          allTorrentsUnverifiedBytes |->
             st.allTorrentsUnverifiedBytes + piece.Length,
          yielded |->
             Append(st.yielded,
                    [InfoHash |-> piece.InfoHash, index |-> piece.index])]

\* The loop body that does not look at the torrent's MaxUnverifiedBytes.
VisitPieceNoTorrentLimit(st, in, piece) ==
    IF st.storageLeft # {} /\ Deref(st.storageLeft) < piece.Length
    THEN st
    ELSE LET debited ==
                [st EXCEPT !.storageLeft =
                    IF st.storageLeft = {} THEN {}
                    ELSE {Deref(st.storageLeft) - piece.Length}] IN
         IF ~piece.Request \/ piece.NumPendingChunks = 0
         THEN debited
         ELSE IF /\ in.MaxUnverifiedBytes # 0
                 /\ st.allTorrentsUnverifiedBytes + piece.Length
                       > in.MaxUnverifiedBytes
         THEN debited
         ELSE [debited EXCEPT
                  !.torrentUnverifiedBytes[piece.InfoHash] = @ + piece.Length,
                  !.allTorrentsUnverifiedBytes = @ + piece.Length,
                  !.yielded =
                      Append(@, [InfoHash |-> piece.InfoHash,
                                 index |-> piece.index])]

\* The loop body that debits the storage of a piece that does not fit.
VisitPieceDebitAlways(st, in, piece) ==
    LET debited ==
           [st EXCEPT !.storageLeft =
               IF st.storageLeft = {} THEN {}
               ELSE {Deref(st.storageLeft) - piece.Length}] IN
    IF st.storageLeft # {} /\ Deref(st.storageLeft) < piece.Length
    THEN debited
    ELSE IF ~piece.Request \/ piece.NumPendingChunks = 0
         THEN debited
         ELSE IF /\ piece.MaxUnverifiedBytes # 0
                 /\ st.torrentUnverifiedBytes[piece.InfoHash] + piece.Length
                       > piece.MaxUnverifiedBytes
         THEN debited
         ELSE IF /\ in.MaxUnverifiedBytes # 0
                 /\ st.allTorrentsUnverifiedBytes + piece.Length
                       > in.MaxUnverifiedBytes
         THEN debited
         ELSE [debited EXCEPT
                  !.torrentUnverifiedBytes[piece.InfoHash] = @ + piece.Length,
                  !.allTorrentsUnverifiedBytes = @ + piece.Length,
                  !.yielded =
                      Append(@, [InfoHash |-> piece.InfoHash,
                                 index |-> piece.index])]

\* One pass of the loop body of GetRequestablePieces over piece: the local
\* state it leaves.
VisitPiece(st, in, piece) ==
    IF st.storageLeft # {} /\ Deref(st.storageLeft) < piece.Length
    THEN st
    ELSE LET debited ==
                [st EXCEPT !.storageLeft =
                    IF st.storageLeft = {} THEN {}
                    ELSE {Deref(st.storageLeft) - piece.Length}] IN
         IF ~piece.Request \/ piece.NumPendingChunks = 0
         THEN debited
         ELSE IF /\ piece.MaxUnverifiedBytes # 0
                 /\ st.torrentUnverifiedBytes[piece.InfoHash] + piece.Length
                       > piece.MaxUnverifiedBytes
         THEN debited
         ELSE IF /\ in.MaxUnverifiedBytes # 0
                 /\ st.allTorrentsUnverifiedBytes + piece.Length
                       > in.MaxUnverifiedBytes
         THEN debited
         ELSE [debited EXCEPT
                  !.torrentUnverifiedBytes[piece.InfoHash] = @ + piece.Length,
                  !.allTorrentsUnverifiedBytes = @ + piece.Length,
                  !.yielded =
                      Append(@, [InfoHash |-> piece.InfoHash,
                                 index |-> piece.index])]

\* One iteration of the loop.
RpsVisit ==
    /\ rpsPos \in 1..Len(pieces)
    /\ LET st == VisitPiece(RpsState, input, pieces[rpsPos]) IN
          /\ storageLeft' = st.storageLeft
          /\ torrentUnverifiedBytes' = st.torrentUnverifiedBytes
          /\ allTorrentsUnverifiedBytes' = st.allTorrentsUnverifiedBytes
          /\ yielded' = st.yielded
    /\ rpsPos' = rpsPos + 1
    /\ UNCHANGED <<input, pieces>>

\* The calls of f the loop makes from local state st over the pieces ps.
RECURSIVE YieldedFrom(_, _, _)
YieldedFrom(st, in, ps) ==
    IF ps = << >> THEN st.yielded
    ELSE YieldedFrom(VisitPiece(st, in, Head(ps)), in, Tail(ps))

InitRPS == rpsInit /\ poiIdle /\ sortIdle /\ sorterIdle /\ ppaIdle /\ rsIdle

NextRPS ==
    \/ RpsBegin /\ UNCHANGED rpsOthers
    \/ RpsVisit /\ UNCHANGED rpsOthers

SpecRPS == InitRPS /\ [][NextRPS]_vars

(***************************************************************************)
(* The peer comparator (peersForPieceSorter).                              *)
(*                                                                         *)
(* A peersForPieceRequests is [Id, DownloadRate, Age,                      *)
(* requestablePiecesRemaining, requestsInPiece, Requests], Requests being  *)
(* nextState.Requests. req is {} for nil and {r} for a pointer to r.       *)
(***************************************************************************)
\* byHasRequest
byHasRequest(i, j, req) ==
    IF req # {}
    THEN MlBool(MlNew, Deref(req) \in j.Requests, Deref(req) \in i.Requests)
    ELSE MlNew

\* Less without the test of the last requestable piece.
LessCmpNoLastPiece(i, j, req, p) ==
    LET ml1 == MlNew
        ml2 == IF p.alwaysReallocate \/ j.requestablePiecesRemaining = 1
               THEN MlInt(ml1, i.requestsInPiece, j.requestsInPiece)
               ELSE MlAndThen(ml1, byHasRequest(i, j, req))
        ml3 == MlFloat64(
                   MlInt(ml2, i.requestablePiecesRemaining,
                         j.requestablePiecesRemaining),
                   j.DownloadRate, i.DownloadRate)
    IN  IF MlOk(ml3) THEN ml3
        ELSE MlUintptr(
                 MlInt64(MlAndThen(ml3, byHasRequest(i, j, req)),
                         j.Age, i.Age),
                 i.Id, j.Id)

\* Less with the Ages compared the other way round.
LessCmpYoungerFirst(i, j, req, p) ==
    LET ml1 == IF ~p.alwaysReallocate
               THEN MlBool(MlNew, j.requestablePiecesRemaining = 1,
                           i.requestablePiecesRemaining = 1)
               ELSE MlNew
        ml2 == IF p.alwaysReallocate \/ j.requestablePiecesRemaining = 1
               THEN MlInt(ml1, i.requestsInPiece, j.requestsInPiece)
               ELSE MlAndThen(ml1, byHasRequest(i, j, req))
        ml3 == MlFloat64(
                   MlInt(ml2, i.requestablePiecesRemaining,
                         j.requestablePiecesRemaining),
                   j.DownloadRate, i.DownloadRate)
    IN  IF MlOk(ml3) THEN ml3
        ELSE MlUintptr(
                 MlInt64(MlAndThen(ml3, byHasRequest(i, j, req)),
                         i.Age, j.Age),
                 i.Id, j.Id)

\* peersForPieceSorter.Less before its final Less or MustLess: the decided
\* comparison, or an undecided one on which MustLess panics.
LessCmp(i, j, req, p) ==
    LET ml1 == IF ~p.alwaysReallocate
               THEN MlBool(MlNew, j.requestablePiecesRemaining = 1,
                           i.requestablePiecesRemaining = 1)
               ELSE MlNew
        ml2 == IF p.alwaysReallocate \/ j.requestablePiecesRemaining = 1
               THEN MlInt(ml1, i.requestsInPiece, j.requestsInPiece)
               ELSE MlAndThen(ml1, byHasRequest(i, j, req))
        ml3 == MlFloat64(
                   MlInt(ml2, i.requestablePiecesRemaining,
                         j.requestablePiecesRemaining),
                   j.DownloadRate, i.DownloadRate)
    IN  IF MlOk(ml3) THEN ml3
        ELSE MlUintptr(
                 MlInt64(MlAndThen(ml3, byHasRequest(i, j, req)),
                         j.Age, i.Age),
                 i.Id, j.Id)

\* peersForPieceSorter.Less
Less(i, j, req, p) == MlMustLess(LessCmp(i, j, req, p))

LessPanics(i, j, req, p) == MlMustLessPanics(LessCmp(i, j, req, p))

\* sort.Sort on a slice of fewer than seven elements is an insertion sort:
\* each element in turn moves left past the neighbours it is Less than.
RECURSIVE InsertPeer(_, _, _, _)
InsertPeer(sorted, x, req, p) ==
    IF sorted = << >> THEN <<x>>
    ELSE IF Less(x, sorted[Len(sorted)], req, p)
         THEN Append(InsertPeer(SubSeq(sorted, 1, Len(sorted) - 1), x, req, p),
                     sorted[Len(sorted)])
         ELSE Append(sorted, x)

RECURSIVE SortPeers(_, _, _)
SortPeers(slice, req, p) ==
    IF slice = << >> THEN << >>
    ELSE InsertPeer(SortPeers(SubSeq(slice, 1, Len(slice) - 1), req, p),
                    slice[Len(slice)], req, p)

\* The peers of one Id a sorter can hold when it sorts for req.
SorterPeers(id, req) ==
    [Id : {id}, DownloadRate : {1, 2}, Age : {1, 2},
     requestablePiecesRemaining : {1, 2, 3}, requestsInPiece : {0, 1},
     Requests : IF req = {} THEN {{}} ELSE {{}, req}]

\* A sorter of three peers of distinct Ids, in the order of their Ids, for
\* either kind of piece, with req nil (no Requests then matter) or not.
sorterInit ==
    \E req \in {{}, {0}}, alwaysReallocate \in BOOLEAN :
       \E a \in SorterPeers(1, req), b \in SorterPeers(2, req),
          c \in SorterPeers(3, req) :
          sorter = [peersForPiece |-> <<a, b, c>>, req |-> req,
                    p |-> [alwaysReallocate |-> alwaysReallocate],
                    sorted |-> FALSE]

\* sortPeersForPiece(req) in allocatePendingChunks.
SortPeersForPiece ==
    /\ sorter.peersForPiece # << >>
    /\ ~sorter.sorted
    /\ sorter' = [sorter EXCEPT
                    !.peersForPiece = SortPeers(@, sorter.req, sorter.p),
                    !.sorted = TRUE]

InitSorter == sorterInit /\ poiIdle /\ sortIdle /\ rpsIdle /\ ppaIdle /\ rsIdle

NextSorter == SortPeersForPiece /\ UNCHANGED sorterOthers

SpecSorter == InitSorter /\ [][NextSorter]_vars

(***************************************************************************)
(* allocatePendingChunks.                                                  *)
(*                                                                         *)
(* A run calls it for the pieces 0, 1, ... in turn over the same peers.    *)
(* Of a Peer's ExistingRequests, PieceAllowedFast and canRequestPiece only *)
(* the part that concerns the piece at hand is read, and it is drawn when  *)
(* the call begins, as [p, canRequestPiece, PieceAllowedFast,              *)
(* ExistingRequests], the second and third being the Ids of the peers that *)
(* can request p.index and that allow it fast. alloc.in keeps what is read *)
(* after the first pass.                                                   *)
(*                                                                         *)
(* The operators below thread a = [peers, peersForPiece, preallocated,     *)
(* panic] through the function body; a candidate (peersForPieceRequests)   *)
(* is [Id, requestsInPiece] and points at peers[Id].                       *)
(***************************************************************************)
\* The peers of a run are equally fast and equally old: the comparator's
\* DownloadRate and Age criteria are exercised by the sorter above.
DownloadRates == {1}

Ages == {1}

\* canFitRequest with the bound included.
canFitRequestOffByOne(rp) ==
    Cardinality(rp.nextState.Requests) <= rp.MaxRequests

\* requestsPeer.canFitRequest
canFitRequest(rp) == Cardinality(rp.nextState.Requests) < rp.MaxRequests

\* requestablePiece.chunkIndexToRequestIndex
chunkIndexToRequestIndex(p, c) == ChunksPerPiece * p.index + c

\* peersForPieceRequests.addNextRequest, on the n-th candidate.
addNextRequest(a, n, r) ==
    LET id == a.peersForPiece[n].Id
    IN  IF r \in a.peers[id].nextState.Requests
        THEN [a EXCEPT !.panic = "should only add once"]
        ELSE [a EXCEPT !.peers[id].nextState.Requests = @ \cup {r},
                       !.peersForPiece[n].requestsInPiece = @ + 1]

\* The loop that builds peersForPiece, from the peer of Id id on.
RECURSIVE FilterPeers(_, _, _)
FilterPeers(a, in, id) ==
    IF id > NumPeers THEN a
    ELSE IF id \notin in.canRequestPiece THEN FilterPeers(a, in, id + 1)
    ELSE IF ~canFitRequest(a.peers[id])
    THEN FilterPeers(
             [a EXCEPT !.peers[id].requestablePiecesRemaining = @ - 1],
             in, id + 1)
    ELSE FilterPeers(
             [a EXCEPT !.peersForPiece =
                          Append(@, [Id |-> id, requestsInPiece |-> 0])],
             in, id + 1)

\* The first pass over one pending chunk, from the n-th candidate on.
RECURSIVE PreallocatePeers(_, _, _, _)
PreallocatePeers(a, in, spec, n) ==
    IF n > Len(a.peersForPiece) \/ a.panic # "" THEN a
    ELSE LET id == a.peersForPiece[n].Id
             req == chunkIndexToRequestIndex(in.p, spec)
         IN  IF req \notin in.ExistingRequests[id] THEN
                 PreallocatePeers(a, in, spec, n + 1)
             ELSE IF ~canFitRequest(a.peers[id]) THEN
                 PreallocatePeers(a, in, spec, n + 1)
             ELSE
                 PreallocatePeers(
                     addNextRequest(
                         [a EXCEPT !.preallocated[spec] = Append(@, id)],
                         n, req),
                     in, spec, n + 1)

\* The least of a set of chunk indexes: IterPendingChunks yields them in
\* ascending order.
FirstChunk(chunks) == CHOOSE c \in chunks : \A d \in chunks : c <= d

\* The first pass, over the pending chunks not yet visited.
RECURSIVE Preallocate(_, _, _)
Preallocate(a, in, chunks) ==
    IF chunks = {} THEN a
    ELSE Preallocate(PreallocatePeers(a, in, FirstChunk(chunks), 1), in,
                     chunks \ {FirstChunk(chunks)})

\* What peersForPieceSorter.Less reads of a candidate.
SorterEntry(a, e) ==
    [Id |-> e.Id,
     DownloadRate |-> a.peers[e.Id].DownloadRate,
     Age |-> a.peers[e.Id].Age,
     requestablePiecesRemaining |-> a.peers[e.Id].requestablePiecesRemaining,
     requestsInPiece |-> e.requestsInPiece,
     Requests |-> a.peers[e.Id].nextState.Requests]

\* sortPeersForPiece left out: the candidates stay in the order of the peers.
sortPeersForPieceSkipped(a, in, req) == a

\* sortPeersForPiece
sortPeersForPiece(a, in, req) ==
    LET entries == [n \in DOMAIN a.peersForPiece |->
                       SorterEntry(a, a.peersForPiece[n])]
        sorted == SortPeers(entries, req, in.p)
    IN  [a EXCEPT !.peersForPiece =
            [n \in DOMAIN sorted |->
                [Id |-> sorted[n].Id,
                 requestsInPiece |-> sorted[n].requestsInPiece]]]

\* The walk with a choking peer passed over even when it allows the
\* piece fast.
RECURSIVE AssignChunkChokingSkipped(_, _, _, _)
AssignChunkChokingSkipped(a, in, req, n) ==
    IF n > Len(a.peersForPiece) THEN a
    ELSE LET id == a.peersForPiece[n].Id
             b == IF id \notin in.PieceAllowedFast
                  THEN [a EXCEPT !.peers[id].nextState.Interested = TRUE]
                  ELSE a
         IN  IF ~canFitRequest(a.peers[id]) THEN
                 AssignChunkChokingSkipped(a, in, req, n + 1)
             ELSE IF a.peers[id].Choking THEN
                 AssignChunkChokingSkipped(b, in, req, n + 1)
             ELSE addNextRequest(b, n, req)

\* The walk over the sorted candidates, from the n-th on, that gives req to
\* the first that can take it (the same loop in the second and the third
\* pass).
RECURSIVE AssignChunk(_, _, _, _)
AssignChunk(a, in, req, n) ==
    IF n > Len(a.peersForPiece) THEN a
    ELSE LET id == a.peersForPiece[n].Id
             b == [a EXCEPT !.peers[id].nextState.Interested = TRUE]
         IN  IF ~canFitRequest(a.peers[id]) THEN
                 AssignChunk(a, in, req, n + 1)
             ELSE IF id \notin in.PieceAllowedFast THEN
                 IF a.peers[id].Choking
                 THEN AssignChunk(b, in, req, n + 1)
                 ELSE addNextRequest(b, n, req)
             ELSE addNextRequest(a, n, req)

\* The peers of a run: none holds a request yet, and each counts every
\* piece of the run as one it may be asked for.
ppaInit ==
    /\ peers \in [PeerIds ->
          [MaxRequests : 1..MaxMaxRequests, Choking : BOOLEAN,
           DownloadRate : DownloadRates, Age : Ages,
           nextState : [Requests : {{}}, Interested : {FALSE}],
           requestablePiecesRemaining : {NumPieces}]]
    /\ alloc = [active |-> FALSE]
    /\ allocated = 0
    /\ allocPanic = ""

\* The arguments of the call for the piece of the given index. Only peers
\* that can request the piece are candidates, so only theirs are the
\* PieceAllowedFast and ExistingRequests that are read; and of
\* ExistingRequests only the requests of the pending chunks.
AllocInputs(index) ==
    {in \in [p : [index : {index}, alwaysReallocate : BOOLEAN,
                  NumPendingChunks : 1..ChunksPerPiece,
                  IterPendingChunks : SUBSET ChunkIndexes \ {{}}],
             canRequestPiece : SUBSET PeerIds,
             PieceAllowedFast : SUBSET PeerIds,
             ExistingRequests :
                 [PeerIds -> SUBSET {ChunksPerPiece * index + c :
                                        c \in ChunkIndexes}]] :
        /\ in.p.NumPendingChunks = Cardinality(in.p.IterPendingChunks)
        /\ in.PieceAllowedFast \subseteq in.canRequestPiece
        /\ \A id \in PeerIds :
              /\ in.ExistingRequests[id] \subseteq
                    {chunkIndexToRequestIndex(in.p, c) :
                        c \in in.p.IterPendingChunks}
              /\ id \notin in.canRequestPiece => in.ExistingRequests[id] = {}}

\* What the second and the third pass read of the arguments: the piece, and
\* PieceAllowedFast of the candidates.
PassInputs(in, peersForPiece) ==
    [p |-> in.p,
     PieceAllowedFast |->
         in.PieceAllowedFast \cap
            {peersForPiece[n].Id : n \in DOMAIN peersForPiece}]

\* The locals of the call as one value.
AllocLocals ==
    [peers |-> peers, peersForPiece |-> alloc.peersForPiece,
     preallocated |-> alloc.preallocated, panic |-> allocPanic]

\* The pending chunks the second pass has yet to give out, and the chunks
\* the third pass has yet to give out again.
FreshTodo ==
    {c \in alloc.in.p.IterPendingChunks \ alloc.done :
        alloc.preallocated[c] = << >>}

\* The third pass continuing past every chunk.
RebalanceTodoNone == {}

RebalanceTodo ==
    {c \in ChunkIndexes \ alloc.done : alloc.preallocated[c] # << >>}

\* allocatePendingChunks up to its second pass: the candidates, the first
\* pass and the counter.
AllocBegin ==
    /\ ~alloc.active
    /\ allocPanic = ""
    /\ allocated < NumPieces
    /\ \E in \in AllocInputs(allocated) :
          LET a0 == [peers |-> peers, peersForPiece |-> << >>,
                     preallocated |-> [c \in ChunkIndexes |-> << >>],
                     panic |-> ""]
              a == Preallocate(FilterPeers(a0, in, 1), in,
                               in.p.IterPendingChunks)
          IN  /\ peers' = a.peers
              /\ allocPanic' = a.panic
              /\ alloc' = [active |-> TRUE,
                           in |-> PassInputs(in, a.peersForPiece),
                           peersForPiece |-> a.peersForPiece,
                           preallocated |-> a.preallocated,
                           pendingChunksRemaining |-> in.p.NumPendingChunks,
                           done |-> {}]
    /\ UNCHANGED allocated

\* One call of the second pass's function that does not return at once:
\* the next pending chunk that no peer was pre-allocated.
FreshChunk ==
    /\ alloc.active
    /\ allocPanic = ""
    /\ FreshTodo # {}
    /\ LET chunk == FirstChunk(FreshTodo)
           req == chunkIndexToRequestIndex(alloc.in.p, chunk)
           a == AssignChunk(sortPeersForPiece(AllocLocals, alloc.in, {}),
                            alloc.in, req, 1)
       IN  /\ peers' = a.peers
           /\ allocPanic' = a.panic
           /\ alloc' = [alloc EXCEPT
                          !.peersForPiece = a.peersForPiece,
                          !.pendingChunksRemaining = @ - 1,
                          !.done = @ \cup {chunk}]
    /\ UNCHANGED allocated

\* The third pass's loop body with the request left with the peers it
\* was pre-allocated to.
RebalanceKeepPreallocated(a, in, chunk) ==
    LET req == chunkIndexToRequestIndex(in.p, chunk)
        prePeers == a.preallocated[chunk]
        pre == {prePeers[k] : k \in DOMAIN prePeers}
        a1 == [a EXCEPT !.peersForPiece =
                 [n \in DOMAIN @ |->
                     IF @[n].Id \in pre
                     THEN [@[n] EXCEPT !.requestsInPiece = @ - 1]
                     ELSE @[n]]]
        a2 == sortPeersForPiece(a1, in, {req})
    IN  AssignChunk(a2, in, req, 1)

\* The third pass's loop body for a chunk that was pre-allocated.
Rebalance(a, in, chunk) ==
    LET req == chunkIndexToRequestIndex(in.p, chunk)
        prePeers == a.preallocated[chunk]
        pre == {prePeers[k] : k \in DOMAIN prePeers}
        a1 == [a EXCEPT !.peersForPiece =
                 [n \in DOMAIN @ |->
                     IF @[n].Id \in pre
                     THEN [@[n] EXCEPT !.requestsInPiece = @ - 1]
                     ELSE @[n]]]
        a2 == sortPeersForPiece(a1, in, {req})
        a3 == [a2 EXCEPT !.peers =
                 [id \in DOMAIN @ |->
                     IF id \in pre
                     THEN [@[id] EXCEPT !.nextState.Requests = @ \ {req}]
                     ELSE @[id]]]
    IN  AssignChunk(a3, in, req, 1)

\* One iteration of the third pass that does not continue at once: the next
\* chunk that was pre-allocated.
RebalanceChunk ==
    /\ alloc.active
    /\ allocPanic = ""
    /\ FreshTodo = {}
    /\ RebalanceTodo # {}
    /\ LET chunk == FirstChunk(RebalanceTodo)
           a == Rebalance(AllocLocals, alloc.in, chunk)
       IN  /\ peers' = a.peers
           /\ allocPanic' = a.panic
           /\ alloc' = [alloc EXCEPT
                          !.peersForPiece = a.peersForPiece,
                          !.pendingChunksRemaining = @ - 1,
                          !.done = @ \cup {chunk}]
    /\ UNCHANGED allocated

\* The end of allocatePendingChunks: the assertion, and the deferred
\* function, which runs whether or not the assertion panics.
AllocEnd ==
    /\ alloc.active
    /\ allocPanic = ""
    /\ FreshTodo = {}
    /\ RebalanceTodo = {}
    /\ allocPanic' = IF alloc.pendingChunksRemaining # 0
                     THEN "pendingChunksRemaining" ELSE ""
    /\ peers' = [id \in PeerIds |->
                   IF \E n \in DOMAIN alloc.peersForPiece :
                         alloc.peersForPiece[n].Id = id
                   THEN [peers[id] EXCEPT
                           !.requestablePiecesRemaining = @ - 1]
                   ELSE peers[id]]
    /\ alloc' = [active |-> FALSE]
    /\ allocated' = allocated + 1

InitPPA == ppaInit /\ poiIdle /\ sortIdle /\ rpsIdle /\ sorterIdle /\ rsIdle

NextPPA ==
    \/ AllocBegin /\ UNCHANGED ppaOthers
    \/ FreshChunk /\ UNCHANGED ppaOthers
    \/ RebalanceChunk /\ UNCHANGED ppaOthers
    \/ AllocEnd /\ UNCHANGED ppaOthers

SpecPPA == InitPPA /\ [][NextPPA]_vars

\* The peers before the last piece of a run: none holds a request yet (no
\* peer could request an earlier piece), some are faster than others, and
\* each may or may not be on the last piece it is asked for.
ppaLastPieceInit ==
    /\ peers \in [PeerIds ->
          [MaxRequests : 1..MaxMaxRequests, Choking : BOOLEAN,
           DownloadRate : {1, 2}, Age : Ages,
           nextState : [Requests : {{}}, Interested : {FALSE}],
           requestablePiecesRemaining : 1..NumPieces]]
    /\ alloc = [active |-> FALSE]
    /\ allocated = NumPieces - 1
    /\ allocPanic = ""

InitPPALastPiece ==
    ppaLastPieceInit /\ poiIdle /\ sortIdle /\ rpsIdle /\ sorterIdle
       /\ rsIdle

SpecPPALastPiece == InitPPALastPiece /\ [][NextPPA]_vars

(***************************************************************************)
(* Peer.maybeUpdateActualRequestState: getDesiredRequestState and          *)
(* applyRequestState for one peer p of one torrent.                        *)
(*                                                                         *)
(* The torrent has the requests RequestIndexes, ChunksPerPiece to a piece  *)
(* (its last piece is short). Every chunk of a piece that                  *)
(* GetRequestablePieces yields is pending; the pieces it yields are        *)
(* t.requestablePieces. To the pass a piece that is not yielded is as one  *)
(* the peer does not have, so the pieces not yielded are pieces the peer   *)
(* has and does not allow fast, which is where the two differ in what is   *)
(* said of Interested.                                                     *)
(* rsPeer is p: [peerChoking, peerAllowedFast, peerHasPiece,               *)
(* nominalMaxRequests, actualRequestState, cancelledRequests,              *)
(* needRequestUpdate, updateRequestsTimer, t], with t = [Pieces,           *)
(* requestablePieces, otherRequests]: t.pendingRequests counts, for each   *)
(* request, the peers that hold it, so it is otherRequests (the holders    *)
(* other than p) plus one for a request in                                 *)
(* p.actualRequestState.Requests.                                          *)
(***************************************************************************)
RequestIndexes == {0, 1, 2}

\* leftRequest / ChunksPerPiece in peerRequests.Less, and the pieces there
\* are.
PieceOf(r) == r \div ChunksPerPiece

RsPieces == {PieceOf(r) : r \in RequestIndexes}

\* t.pendingRequests.Get
pendingRequestsGet(pr, r) ==
    pr.t.otherRequests[r]
       + (IF r \in pr.actualRequestState.Requests THEN 1 ELSE 0)

\* pending in peerRequests.Less (its result is never negative here).
pending(pr, index, current) ==
    IF current THEN pendingRequestsGet(pr, index) - 1
    ELSE pendingRequestsGet(pr, index)

\* peerRequests.Less without the test of peerChoking.
peerRequestsLessCmpNoChoking(pr, leftRequest, rightRequest) ==
    LET leftPieceIndex == PieceOf(leftRequest)
        rightPieceIndex == PieceOf(rightRequest)
        leftCurrent == leftRequest \in pr.actualRequestState.Requests
        rightCurrent == rightRequest \in pr.actualRequestState.Requests
        ml1 == MlNew
        ml2 == MlInt(ml1, pending(pr, leftRequest, leftCurrent),
                     pending(pr, rightRequest, rightCurrent))
        ml3 == MlBool(ml2, ~leftCurrent, ~rightCurrent)
        ml4 == MlInt(ml3, -pr.t.Pieces[leftPieceIndex].Priority,
                     -pr.t.Pieces[rightPieceIndex].Priority)
        ml5 == MlInt(ml4, pr.t.Pieces[leftPieceIndex].Availability,
                     pr.t.Pieces[rightPieceIndex].Availability)
        ml6 == MlUint32(ml5, leftPieceIndex, rightPieceIndex)
    IN  MlUint32(ml6, leftRequest, rightRequest)

\* peerRequests.Less before its MustLess.
peerRequestsLessCmp(pr, leftRequest, rightRequest) ==
    LET leftPieceIndex == PieceOf(leftRequest)
        rightPieceIndex == PieceOf(rightRequest)
        leftCurrent == leftRequest \in pr.actualRequestState.Requests
        rightCurrent == rightRequest \in pr.actualRequestState.Requests
        ml1 == IF pr.peerChoking
               THEN MlBool(MlNew, leftPieceIndex \notin pr.peerAllowedFast,
                           rightPieceIndex \notin pr.peerAllowedFast)
               ELSE MlNew
        ml2 == MlInt(ml1, pending(pr, leftRequest, leftCurrent),
                     pending(pr, rightRequest, rightCurrent))
        ml3 == MlBool(ml2, ~leftCurrent, ~rightCurrent)
        ml4 == MlInt(ml3, -pr.t.Pieces[leftPieceIndex].Priority,
                     -pr.t.Pieces[rightPieceIndex].Priority)
        ml5 == MlInt(ml4, pr.t.Pieces[leftPieceIndex].Availability,
                     pr.t.Pieces[rightPieceIndex].Availability)
        ml6 == MlUint32(ml5, leftPieceIndex, rightPieceIndex)
    IN  MlUint32(ml6, leftRequest, rightRequest)

\* peerRequests.Less
peerRequestsLess(pr, leftRequest, rightRequest) ==
    MlMustLess(peerRequestsLessCmp(pr, leftRequest, rightRequest))

\* The callback with Interested set only by a request that is kept.
RECURSIVE CollectRequestsInterestedWhenKept(_, _, _)
CollectRequestsInterestedWhenKept(pr, d, r) ==
    IF r \notin RequestIndexes THEN d
    ELSE IF PieceOf(r) \notin pr.t.requestablePieces THEN
        CollectRequestsInterestedWhenKept(pr, d, r + 1)
    ELSE IF PieceOf(r) \notin pr.peerHasPiece THEN
        CollectRequestsInterestedWhenKept(pr, d, r + 1)
    ELSE IF PieceOf(r) \in pr.peerAllowedFast THEN
        CollectRequestsInterestedWhenKept(
            pr, [d EXCEPT !.requestIndexes = Append(@, r)], r + 1)
    ELSE IF pr.peerChoking /\ r \notin pr.actualRequestState.Requests THEN
        CollectRequestsInterestedWhenKept(pr, d, r + 1)
    ELSE
        CollectRequestsInterestedWhenKept(
            pr, [d EXCEPT !.Interested = TRUE,
                          !.requestIndexes = Append(@, r)], r + 1)

\* The callback of getDesiredRequestState over the chunks of the pieces, from
\* the chunk of request r on: d is [requestIndexes, Interested].
RECURSIVE CollectRequests(_, _, _)
CollectRequests(pr, d, r) ==
    IF r \notin RequestIndexes THEN d
    ELSE IF PieceOf(r) \notin pr.t.requestablePieces THEN
        CollectRequests(pr, d, r + 1)
    ELSE IF PieceOf(r) \notin pr.peerHasPiece THEN
        CollectRequests(pr, d, r + 1)
    ELSE IF PieceOf(r) \in pr.peerAllowedFast THEN
        CollectRequests(
            pr, [d EXCEPT !.requestIndexes = Append(@, r)], r + 1)
    ELSE IF pr.peerChoking /\ r \notin pr.actualRequestState.Requests THEN
        CollectRequests(pr, [d EXCEPT !.Interested = TRUE], r + 1)
    ELSE
        CollectRequests(
            pr, [d EXCEPT !.Interested = TRUE,
                          !.requestIndexes = Append(@, r)], r + 1)

\* A limit one greater than the peer's.
nominalMaxRequestsPlusOne(pr) == pr.nominalMaxRequests + 1

\* Peer.nominalMaxRequests
nominalMaxRequests(pr) == pr.nominalMaxRequests

\* The position heap.Pop takes from: that of a request none is Less than.
HeapTop(pr, requestIndexes) ==
    CHOOSE n \in DOMAIN requestIndexes :
       \A m \in DOMAIN requestIndexes :
          requestIndexes[m] = requestIndexes[n]
             \/ ~peerRequestsLess(pr, requestIndexes[m], requestIndexes[n])

\* requestIndexes without its n-th element.
RemoveAt(requestIndexes, n) ==
    SubSeq(requestIndexes, 1, n - 1)
       \o SubSeq(requestIndexes, n + 1, Len(requestIndexes))

\* The loop of heap.Pop with one request too many.
RECURSIVE PopRequestsOneMore(_, _, _)
PopRequestsOneMore(pr, requestIndexes, desired) ==
    IF requestIndexes # << >> /\ Len(desired) <= nominalMaxRequests(pr)
    THEN LET top == HeapTop(pr, requestIndexes)
         IN  PopRequestsOneMore(pr, RemoveAt(requestIndexes, top),
                 Append(desired, requestIndexes[top]))
    ELSE desired

\* The loop of heap.Pop at the end of getDesiredRequestState.
RECURSIVE PopRequests(_, _, _)
PopRequests(pr, requestIndexes, desired) ==
    IF requestIndexes # << >> /\ Len(desired) < nominalMaxRequests(pr)
    THEN LET top == HeapTop(pr, requestIndexes)
         IN  PopRequests(pr, RemoveAt(requestIndexes, top),
                 Append(desired, requestIndexes[top]))
    ELSE desired

\* Peer.getDesiredRequestState
getDesiredRequestState(pr) ==
    LET d == CollectRequests(
                 pr, [requestIndexes |-> << >>, Interested |-> FALSE], 0)
    IN  [Requests |-> PopRequests(pr, d.requestIndexes, << >>),
         Interested |-> d.Interested]

(***************************************************************************)
(* applyRequestState threads a = [pr, Requests, emitted, calls, more,      *)
(* panic]: the peer, next.Requests (shuffled in place), what was emitted,  *)
(* the number of writes to the peer so far and the last result. The write  *)
(* of number fails returns false (0: none does); rand ranks the requests,  *)
(* and rand.Shuffle leaves a slice in the order of the ranks.              *)
(* An emission is [op, arg, ok], arg being {r} for a cancel or a request   *)
(* of r, and {i} for the log of a shuffle of next.Requests[i:].            *)
(***************************************************************************)
Emit(a, op, arg, ok) ==
    [a EXCEPT !.emitted = Append(@, [op |-> op, arg |-> arg, ok |-> ok]),
              !.calls = @ + 1,
              !.more = ok]

\* Whether the next write to the peer succeeds.
NextWriteOk(a, fails) == a.calls + 1 # fails

\* Peer.setInterested
setInterested(a, interested, fails) ==
    Emit(a, "setInterested", {}, NextWriteOk(a, fails))

\* Peer.cancel: a cancel that is written takes r out of the actual requests.
cancel(a, r, fails) ==
    LET b == Emit(a, "cancel", {r}, NextWriteOk(a, fails))
    IN  IF b.more
        THEN [b EXCEPT !.pr.actualRequestState.Requests = @ \ {r}]
        ELSE b

\* Peer.mustRequest: nothing is written for a request that is outstanding;
\* a request that is written joins the actual requests.
mustRequest(a, r, fails) ==
    IF r \in a.pr.actualRequestState.Requests THEN [a EXCEPT !.more = TRUE]
    ELSE LET b == Emit(a, "request", {r}, NextWriteOk(a, fails))
         IN  IF b.more
             THEN [b EXCEPT !.pr.actualRequestState.Requests = @ \cup {r}]
             ELSE b

\* cancel.Iterate that goes on after a cancel returns false.
RECURSIVE CancelRequestsNoStop(_, _, _)
CancelRequestsNoStop(a, toCancel, fails) ==
    IF toCancel = {} THEN a
    ELSE LET req == CHOOSE r \in toCancel : \A q \in toCancel : r <= q
         IN  CancelRequestsNoStop(cancel(a, req, fails), toCancel \ {req},
                                  fails)

\* cancel.Iterate: the requests to cancel in ascending order, until a cancel
\* returns false.
RECURSIVE CancelRequests(_, _, _)
CancelRequests(a, toCancel, fails) ==
    IF toCancel = {} THEN a
    ELSE LET req == CHOOSE r \in toCancel : \A q \in toCancel : r <= q
             b == cancel(a, req, fails)
         IN  IF b.more THEN CancelRequests(b, toCancel \ {req}, fails) ELSE b

\* rand.Shuffle of shuffleReqs.
Shuffle(shuffleReqs, rand) ==
    CHOOSE q \in [DOMAIN shuffleReqs ->
                     {shuffleReqs[n] : n \in DOMAIN shuffleReqs}] :
       \A m, n \in DOMAIN shuffleReqs : m < n => rand[q[m]] < rand[q[n]]

\* The shuffle of the whole of next.Requests, whatever i.
ShuffleWhole(Requests, i, rand) == Shuffle(Requests, rand)

\* rand.Shuffle of next.Requests[i:], in place.
ShuffleFrom(Requests, i, rand) ==
    SubSeq(Requests, 1, i)
       \o Shuffle(SubSeq(Requests, i + 1, Len(Requests)), rand)

\* maxRequests(current.Requests.GetCardinality()) >= p.nominalMaxRequests()
AtMaxRequests(pr) ==
    Cardinality(pr.actualRequestState.Requests) >= nominalMaxRequests(pr)

\* Every actual request is cancelled.
CancelSetAll(pr, next) == pr.actualRequestState.Requests

\* cancel: the actual requests that next.Requests leaves out.
CancelSet(pr, next) ==
    pr.actualRequestState.Requests
       \ {next.Requests[n] : n \in DOMAIN next.Requests}

\* The loop over next.Requests, at index i (from 0).
RECURSIVE RequestLoop(_, _, _, _, _)
RequestLoop(a, i, shuffled, fails, rand) ==
    IF i >= Len(a.Requests) THEN a
    ELSE LET req == a.Requests[i + 1]
             otherPending ==
                 pending(a.pr, a.Requests[1],
                         a.Requests[1] \in a.pr.actualRequestState.Requests)
         IN  IF req \in a.pr.cancelledRequests THEN
                 RequestLoop(a, i + 1, shuffled, fails, rand)
             ELSE IF AtMaxRequests(a.pr) THEN a
             ELSE IF otherPending < 0 THEN [a EXCEPT !.panic = "lastPending"]
             ELSE IF ~shuffled /\ otherPending > 0 THEN
                 RequestLoop(
                     [a EXCEPT
                        !.Requests = ShuffleFrom(@, i, rand),
                        !.emitted =
                            Append(@, [op |-> "shuffled", arg |-> {i},
                                       ok |-> TRUE])],
                     i, TRUE, fails, rand)
             ELSE LET b == mustRequest(a, req, fails)
                  IN  IF b.more
                      THEN RequestLoop(b, i + 1, shuffled, fails, rand)
                      ELSE b

\* The end of applyRequestState without the Stop of the timer.
ResetTimerOnly(a) ==
    IF a.more
    THEN [a EXCEPT
            !.pr.updateRequestsTimer = a.pr.actualRequestState.Requests # {},
            !.pr.needRequestUpdate = ""]
    ELSE a

\* The end of applyRequestState: updateRequestsTimer.Stop; if more,
\* needRequestUpdate is cleared and the timer is Reset when there are
\* actual requests.
StopAndResetTimer(a) ==
    [a EXCEPT
       !.pr.updateRequestsTimer =
           a.more /\ a.pr.actualRequestState.Requests # {},
       !.pr.needRequestUpdate = IF a.more THEN "" ELSE @]

\* applyRequestState with the requests before the cancels.
applyRequestStateRequestsFirst(pr, next, fails, rand) ==
    LET a0 == [pr |-> pr, Requests |-> next.Requests, emitted |-> << >>,
               calls |-> 0, more |-> TRUE, panic |-> ""]
        a1 == setInterested(a0, next.Interested, fails)
        a2 == RequestLoop(a1, 0, FALSE, fails, rand)
        a3 == CancelRequests(a2, CancelSet(pr, next), fails)
    IN  IF ~a1.more THEN a1
        ELSE IF ~a2.more THEN a2
        ELSE IF a2.panic # "" THEN a2
        ELSE StopAndResetTimer(a3)

\* Peer.applyRequestState
applyRequestState(pr, next, fails, rand) ==
    LET a0 == [pr |-> pr, Requests |-> next.Requests, emitted |-> << >>,
               calls |-> 0, more |-> TRUE, panic |-> ""]
        a1 == setInterested(a0, next.Interested, fails)
        a2 == CancelRequests(a1, CancelSet(pr, next), fails)
        a3 == RequestLoop(a2, 0, FALSE, fails, rand)
    IN  IF ~a1.more THEN a1
        ELSE IF ~a2.more THEN a2
        ELSE IF a3.panic # "" THEN a3
        ELSE StopAndResetTimer(a3)

\* The nominalMaxRequests a peer may have.
NominalMaxRequests == {2}

\* No pass has run: rsPass is [passes, actual, desired, Requests, emitted,
\* more, panic, timer], the actual requests when the last pass began, what
\* getDesiredRequestState returned, next.Requests when applyRequestState
\* ended, what it emitted, what it returned, the panic that ended it and
\* whether the timer was armed when the pass began.
NoPass ==
    [passes |-> 0, actual |-> {},
     desired |-> [Requests |-> << >>, Interested |-> FALSE],
     Requests |-> << >>, emitted |-> << >>, more |-> TRUE, panic |-> "",
     timer |-> FALSE]

\* A peer due for a pass: it holds no more requests than it may, and none
\* that it has cancelled and not heard of since; its timer may be armed by
\* an earlier pass. Piece 0 has the lower priority or the same as the other
\* piece.
rsInit ==
    /\ rsPeer \in
          {pr \in [peerChoking : BOOLEAN,
                   peerAllowedFast : SUBSET RsPieces,
                   peerHasPiece : SUBSET RsPieces,
                   nominalMaxRequests : NominalMaxRequests,
                   actualRequestState : [Requests : SUBSET RequestIndexes],
                   cancelledRequests : SUBSET RequestIndexes,
                   needRequestUpdate : {"update"},
                   updateRequestsTimer : BOOLEAN,
                   t : [Pieces : [RsPieces ->
                                    [Priority : {1, 2}, Availability : {1}]],
                        requestablePieces : SUBSET RsPieces,
                        otherRequests : [RequestIndexes -> {0, 1}]]] :
              /\ pr.peerAllowedFast \subseteq pr.peerHasPiece
              /\ \A piece \in RsPieces \ pr.t.requestablePieces :
                    piece \in pr.peerHasPiece \ pr.peerAllowedFast
              /\ pr.t.Pieces[0].Priority = 1
              /\ Cardinality(pr.actualRequestState.Requests)
                    <= pr.nominalMaxRequests
              /\ Cardinality(pr.cancelledRequests) <= 1
              /\ pr.cancelledRequests \cap pr.actualRequestState.Requests
                    = {}}
    /\ rsPass = NoPass

\* The number of passes of a run.
MaxPasses == 2

\* The ranks rand.Shuffle may go by: in the order of the requests or against
\* it, which gives every order of a slice of two.
Rands ==
    {[r \in RequestIndexes |-> r], [r \in RequestIndexes |-> -r]}

\* The writes of a pass of which one may fail.
Writes == 1..3

\* The ranks that make a difference to the pass that fails at write fails:
\* one of them when the pass does not shuffle.
RandsOf(pr, next, fails) ==
    LET first == CHOOSE rand \in Rands : \A r \in RequestIndexes : rand[r] = r
        a == applyRequestState(pr, next, fails, first)
    IN  IF \E k \in DOMAIN a.emitted : a.emitted[k].op = "shuffled"
        THEN Rands ELSE {first}

\* The writes whose failure makes a difference to the pass: those that the
\* pass makes when none fails, under either rank.
WritesOf(pr, next) ==
    {w \in Writes :
        \E rand \in Rands : w <= applyRequestState(pr, next, 0, rand).calls}

\* Peer.maybeUpdateActualRequestState
MaybeUpdateActualRequestState ==
    /\ rsPass.passes < MaxPasses
    /\ IF rsPeer.needRequestUpdate = ""
       THEN /\ rsPass' = [NoPass EXCEPT
                            !.passes = rsPass.passes + 1,
                            !.actual = rsPeer.actualRequestState.Requests,
                            !.timer = rsPeer.updateRequestsTimer]
            /\ UNCHANGED rsPeer
       ELSE LET next == getDesiredRequestState(rsPeer)
            IN  \E fails \in {0} \cup WritesOf(rsPeer, next) :
                \E rand \in RandsOf(rsPeer, next, fails) :
                   LET a == applyRequestState(rsPeer, next, fails, rand)
                   IN  /\ rsPeer' = a.pr
                       /\ rsPass' =
                             [passes |-> rsPass.passes + 1,
                              actual |-> rsPeer.actualRequestState.Requests,
                              desired |-> next,
                              Requests |-> a.Requests,
                              emitted |-> a.emitted,
                              more |-> a.more,
                              panic |-> a.panic,
                              timer |-> rsPeer.updateRequestsTimer]

\* Peer.updateRequests: something asks for a pass.
UpdateRequests ==
    /\ rsPass.passes < MaxPasses
    /\ rsPeer.needRequestUpdate = ""
    /\ rsPeer' = [rsPeer EXCEPT !.needRequestUpdate = "update"]
    /\ UNCHANGED rsPass

InitRS ==
    rsInit /\ poiIdle /\ sortIdle /\ rpsIdle /\ sorterIdle /\ ppaIdle

NextRS ==
    \/ MaybeUpdateActualRequestState /\ UNCHANGED rsOthers
    \/ UpdateRequests /\ UNCHANGED rsOthers

SpecRS == InitRS /\ [][NextRS]_vars

(***************************************************************************)
(* Properties of the piece order.                                          *)
(***************************************************************************)
HashBefore(x, y) ==
    \E n \in 1..Len(x) : x[n] < y[n] /\ \A m \in 1..(n - 1) : x[m] = y[m]

\* Higher Priority, then Partial, then lower Availability, then lower index,
\* then the bytewise smaller InfoHash.
PieceOrderBefore(a, b) ==
    \/ a.Priority > b.Priority
    \/ /\ a.Priority = b.Priority
       /\ \/ a.Partial /\ ~b.Partial
          \/ /\ a.Partial = b.Partial
             /\ \/ a.Availability < b.Availability
                \/ /\ a.Availability = b.Availability
                   /\ \/ a.index < b.index
                      \/ /\ a.index = b.index
                         /\ HashBefore(a.InfoHash, b.InfoHash)

AsFilterPiece(item) ==
    [InfoHash |-> item.key.InfoHash, index |-> item.key.Index,
     Priority |-> item.state.Priority, Partial |-> item.state.Partial,
     Availability |-> item.state.Availability]

\* C7: on pieces of distinct (InfoHash, index) the piece comparison of
\* sortFilterPieces decides by higher Priority, then Partial first, then lower Availability, then lower index, then the
\* bytewise smaller InfoHash; it never panics, is irreflexive, antisymmetric,
\* total and transitive; a High piece precedes every Normal piece and a
\* partial Normal piece every non-partial Normal piece whatever their
\* availability; and the sorted slice is in that order.
C7_PieceOrderIsStrictTotalOrder ==
    LET P == {sortPieces[n] : n \in DOMAIN sortPieces} IN
    /\ \A a \in P :
          ~sortFilterPiecesLess(a, a)
    /\ \A a, b \in P : a # b =>
          /\ ~sortFilterPiecesPanics(a, b)
          /\ sortFilterPiecesLess(a, b) <=> PieceOrderBefore(a, b)
          /\ sortFilterPiecesLess(a, b) <=> ~sortFilterPiecesLess(b, a)
          /\ a.Priority = 2 /\ b.Priority = 1 => sortFilterPiecesLess(a, b)
          /\ a.Priority = 1 /\ b.Priority = 1 /\ a.Partial /\ ~b.Partial
                => sortFilterPiecesLess(a, b)
    /\ \A a, b, c \in P :
          sortFilterPiecesLess(a, b) /\ sortFilterPiecesLess(b, c)
             => sortFilterPiecesLess(a, c)
    /\ sortIndices # << >> =>
          /\ {sortIndices[n] : n \in DOMAIN sortIndices} = DOMAIN sortPieces
          /\ \A m, n \in DOMAIN sortIndices :
                m < n => PieceOrderBefore(sortPieces[sortIndices[m]],
                                          sortPieces[sortIndices[n]])

\* Two torrents: (T1, 0) Normal, partial, availability 1; (T1, 1) Normal, not
\* partial, availability 0; (T2, 0) High, not partial, availability 1. Sorted:
\* (T2, 0), (T1, 0), (T1, 1).
C7_Witness ==
    /\ sortPieces =
          <<[InfoHash |-> <<0, 2>>, index |-> 0, Priority |-> 1,
             Partial |-> TRUE, Availability |-> 1],
            [InfoHash |-> <<0, 2>>, index |-> 1, Priority |-> 1,
             Partial |-> FALSE, Availability |-> 0],
            [InfoHash |-> <<1, 0>>, index |-> 0, Priority |-> 2,
             Partial |-> FALSE, Availability |-> 1]>>
    /\ sortIndices = <<3, 1, 2>>

(***************************************************************************)
(* Properties of PieceRequestOrder.                                        *)
(***************************************************************************)
\* C8: Add of a key that is present panics, Update and Delete of a key that
\* is absent panic, and a call that panics leaves me.keys and me.tree as they
\* were.
C8_FailedCallLeavesIndexUnchanged ==
    [][/\ poiCall'.op = "Add" /\ poiCall'.key \subseteq DOMAIN keys
             => poiCall'.result = "panic"
       /\ poiCall'.op \in {"Update", "Delete"}
             /\ poiCall'.key \cap DOMAIN keys = {}
             => poiCall'.result = "panic"
       /\ poiCall'.result = "panic" => keys' = keys /\ tree' = tree]_vars

\* An Update that failed on an index of two items.
C8_Witness ==
    /\ poiCall.op = "Update"
    /\ poiCall.result = "panic"
    /\ Len(tree) = 2

\* The items of me.keys in some order, as a slice of pieces.
RECURSIVE KeysAsSlice(_)
KeysAsSlice(ks) ==
    IF ks = {} THEN << >>
    ELSE LET k == CHOOSE x \in ks : TRUE IN
         <<AsFilterPiece([key |-> k, state |-> keys[k]])>>
            \o KeysAsSlice(ks \ {k})

\* C9: iterating the tree yields one item per key of me.keys, with the state
\* last set for it, in the order the one-shot sort (sortFilterPieces) puts
\* those items in.
C9_IterateMatchesStandaloneSort ==
    /\ Len(tree) = Cardinality(DOMAIN keys)
    /\ \A n \in 1..Len(tree) :
          /\ tree[n].key \in DOMAIN keys
          /\ tree[n].state = keys[tree[n].key]
    /\ [n \in 1..Len(tree) |-> AsFilterPiece(tree[n])]
          = getSortedFilterPieces(KeysAsSlice(DOMAIN keys))

\* After an Update the index holds three items and the only piece of the
\* second torrent comes first.
C9_Witness ==
    /\ poiCall.op = "Update"
    /\ poiCall.result = "ok"
    /\ Len(tree) = 3
    /\ tree[1].key = [InfoHash |-> <<1, 0>>, Index |-> 0]
    /\ tree[3].key = [InfoHash |-> <<0, 2>>, Index |-> 0]

(***************************************************************************)
(* Properties of GetRequestablePieces.                                     *)
(***************************************************************************)
\* The piece a call of f was made for.
YieldedPiece(y) ==
    pieces[CHOOSE n \in DOMAIN pieces :
              pieces[n].InfoHash = y.InfoHash /\ pieces[n].index = y.index]

\* The summed Length of the pieces yielded, of the torrents hs.
RECURSIVE YieldedLength(_, _)
YieldedLength(ys, hs) ==
    IF ys = << >> THEN 0
    ELSE (IF Head(ys).InfoHash \in hs THEN YieldedPiece(Head(ys)).Length
          ELSE 0) + YieldedLength(Tail(ys), hs)

PieceId(piece) == [InfoHash |-> piece.InfoHash, index |-> piece.index]

Requestable(piece) == piece.Request /\ piece.NumPendingChunks > 0

\* C4: every piece f is called for has Request and pending chunks; the Lengths
\* of the pieces yielded sum to at most Capacity (when there is one), those of
\* one torrent to at most its MaxUnverifiedBytes (when not 0), and all of them
\* to at most Input.MaxUnverifiedBytes (when not 0).
C4_YieldedPiecesRespectBudgets ==
    /\ \A n \in DOMAIN yielded : Requestable(YieldedPiece(yielded[n]))
    /\ input.Capacity # {} =>
          YieldedLength(yielded, InfoHashes) <= Deref(input.Capacity)
    /\ \A n \in DOMAIN input.Torrents :
          input.Torrents[n].MaxUnverifiedBytes # 0 =>
             YieldedLength(yielded, {input.Torrents[n].InfoHash})
                <= input.Torrents[n].MaxUnverifiedBytes
    /\ input.MaxUnverifiedBytes # 0 =>
          YieldedLength(yielded, InfoHashes) <= input.MaxUnverifiedBytes

\* The loop is over, all three budgets are set, two pieces were yielded and a
\* requestable piece was not.
C4_Witness ==
    /\ rpsPos = Len(pieces) + 1
    /\ Len(yielded) = 2
    /\ input.Capacity # {}
    /\ input.MaxUnverifiedBytes # 0
    /\ \A n \in DOMAIN input.Torrents :
          input.Torrents[n].MaxUnverifiedBytes # 0
    /\ \A n \in DOMAIN pieces : Requestable(pieces[n])

\* The step is the loop's visit of a piece it will not yield for want of
\* Request or of pending chunks.
VisitsUnrequestable ==
    /\ rpsPos \in 1..Len(pieces)
    /\ rpsPos' = rpsPos + 1
    /\ ~Requestable(pieces[rpsPos])

\* The pieces the loop has yet to visit after this step.
PiecesAfter == SubSeq(pieces, rpsPos + 1, Len(pieces))

\* C5 as claimed: the visit of a piece with Request false or no pending chunk
\* leaves storageLeft and both unverified-byte counters unchanged, and the
\* pieces yielded later are those yielded had the piece not been there.
C5_AsClaimed ==
    [][VisitsUnrequestable =>
          /\ storageLeft' = storageLeft
          /\ torrentUnverifiedBytes' = torrentUnverifiedBytes
          /\ allTorrentsUnverifiedBytes' = allTorrentsUnverifiedBytes
          /\ YieldedFrom(RpsState', input, PiecesAfter)
                = YieldedFrom(RpsState, input, PiecesAfter)]_vars

\* C5, amended: the visit of a piece with Request false or no pending chunk
\* yields nothing and leaves both unverified-byte counters unchanged;
\* storageLeft is debited by the piece's Length when there is a Capacity and
\* the piece fits what is left, and unchanged otherwise; with no Capacity the
\* pieces yielded later are those yielded had the piece not been there.
C5_UnrequestablePieceDebitsOnlyStorage ==
    [][VisitsUnrequestable =>
          /\ yielded' = yielded
          /\ torrentUnverifiedBytes' = torrentUnverifiedBytes
          /\ allTorrentsUnverifiedBytes' = allTorrentsUnverifiedBytes
          /\ storageLeft' =
                IF storageLeft = {}
                      \/ Deref(storageLeft) < pieces[rpsPos].Length
                THEN storageLeft
                ELSE {Deref(storageLeft) - pieces[rpsPos].Length}
          /\ input.Capacity = {} =>
                YieldedFrom(RpsState', input, PiecesAfter)
                   = YieldedFrom(RpsState, input, PiecesAfter)]_vars

\* The first piece in order is not requested and the storage left after its
\* visit is the Capacity less its Length.
C5_Witness ==
    /\ rpsPos = 2
    /\ ~pieces[1].Request
    /\ input.Capacity # {}
    /\ storageLeft = {Deref(input.Capacity) - pieces[1].Length}
    /\ yielded = << >>

\* The step is the loop's visit of a piece.
Visits == rpsPos \in 1..Len(pieces) /\ rpsPos' = rpsPos + 1

NoUnverifiedLimit ==
    /\ input.MaxUnverifiedBytes = 0
    /\ \A n \in DOMAIN input.Torrents :
          input.Torrents[n].MaxUnverifiedBytes = 0

\* C6: with a Capacity, the visit of a piece longer than the storage left
\* changes neither storageLeft nor what was yielded; a requestable piece
\* visited later that fits the storage left is yielded (no unverified-byte
\* limit set); so three requestable pieces of which the first fits, the
\* second does not fit what the first leaves and the third does, yield the
\* first and the third.
C6_TooLongPieceSkippedUndebited ==
    [][Visits =>
          LET piece == pieces[rpsPos] IN
          /\ storageLeft # {} /\ Deref(storageLeft) < piece.Length =>
                /\ storageLeft' = storageLeft
                /\ yielded' = yielded
          /\ /\ storageLeft # {} /\ Deref(storageLeft) >= piece.Length
             /\ Requestable(piece) /\ NoUnverifiedLimit
             => /\ yielded' = Append(yielded, PieceId(piece))
                /\ storageLeft' = {Deref(storageLeft) - piece.Length}
          /\ /\ rpsPos = 3 /\ input.Capacity # {} /\ NoUnverifiedLimit
             /\ \A n \in 1..3 : Requestable(pieces[n])
             /\ pieces[1].Length <= Deref(input.Capacity)
             /\ pieces[2].Length > Deref(input.Capacity) - pieces[1].Length
             /\ pieces[3].Length <= Deref(input.Capacity) - pieces[1].Length
             => yielded' = <<PieceId(pieces[1]), PieceId(pieces[3])>>]_vars

\* Requestable pieces of lengths 6, 5 and 3 in order under the Capacity: the
\* first and the third were yielded.
C6_Witness ==
    /\ rpsPos = 4
    /\ input.Capacity # {}
    /\ NoUnverifiedLimit
    /\ \A n \in 1..3 : Requestable(pieces[n])
    /\ <<pieces[1].Length, pieces[2].Length, pieces[3].Length>> = <<6, 5, 3>>
    /\ yielded = <<PieceId(pieces[1]), PieceId(pieces[3])>>

(***************************************************************************)
(* Properties of the peer comparator.                                      *)
(***************************************************************************)
\* C10: over candidate peers of distinct Ids the peer comparator never
\* panics, is irreflexive, antisymmetric, total and transitive, whether or
\* not the piece is alwaysReallocate and req is nil, whatever the peers'
\* requestablePiecesRemaining, requestsInPiece, DownloadRate and Age; and
\* once sort.Sort has sorted those peers with it, each is Less than every
\* peer after it (sort.IsSorted).
C10_PeerOrderIsStrictTotalOrder ==
    LET P == {sorter.peersForPiece[n] : n \in DOMAIN sorter.peersForPiece}
        lt(a, b) == Less(a, b, sorter.req, sorter.p)
    IN  IF sorter.sorted
        THEN \A m, n \in DOMAIN sorter.peersForPiece :
                m < n => lt(sorter.peersForPiece[m], sorter.peersForPiece[n])
        ELSE /\ \A a \in P : ~lt(a, a)
             /\ \A a, b \in P : a # b =>
                   /\ ~LessPanics(a, b, sorter.req, sorter.p)
                   /\ lt(a, b) <=> ~lt(b, a)
             /\ \A a \in P : \A b \in P \ {a} : \A c \in P \ {a, b} :
                   lt(a, b) /\ lt(b, c) => lt(a, c)

\* A sorted slice, for a piece not alwaysReallocate and a req: the peer of
\* Id 3, the only one on its last requestable piece, is first; the peer of
\* Id 2, which holds req, is before the peer of Id 1, which does not.
C10_Witness ==
    /\ sorter.sorted
    /\ ~sorter.p.alwaysReallocate
    /\ sorter.req = {0}
    /\ Len(sorter.peersForPiece) = 3
    /\ sorter.peersForPiece[1].Id = 3
    /\ sorter.peersForPiece[1].requestablePiecesRemaining = 1
    /\ sorter.peersForPiece[2].Id = 2
    /\ sorter.peersForPiece[2].Requests = {0}
    /\ sorter.peersForPiece[3].Requests = {}
    /\ sorter.peersForPiece[3].requestablePiecesRemaining = 2
    /\ sorter.peersForPiece[2].requestablePiecesRemaining = 2
    /\ sorter.peersForPiece[3].DownloadRate
          > sorter.peersForPiece[2].DownloadRate

(***************************************************************************)
(* Properties of allocatePendingChunks.                                    *)
(***************************************************************************)
\* The peers, among ps, whose nextState.Requests (NextRequests) hold r.
HoldersAmong(ps, r) == {id \in DOMAIN ps : r \in ps[id].nextState.Requests}

Holders(r) == HoldersAmong(peers, r)

\* The request index of chunk c of the piece of the given index.
RequestIndexOf(index, c) == ChunksPerPiece * index + c

\* The three passes of the call in progress are over.
PassesOver ==
    alloc.active /\ allocPanic = "" /\ FreshTodo = {} /\ RebalanceTodo = {}

\* C1: the peers start a run with no more requests than their MaxRequests;
\* whenever allocatePendingChunks has returned, for whatever pieces it has
\* been called so far, every peer's nextState.Requests has at most
\* MaxRequests elements.
C1_NextRequestsWithinMaxRequests ==
    ~alloc.active =>
        \A id \in DOMAIN peers :
           Cardinality(peers[id].nextState.Requests) <= peers[id].MaxRequests

\* The run is over, a peer holds as many requests as it may, two of them,
\* and another peer holds a request as well.
C1_Witness ==
    /\ ~alloc.active
    /\ allocated = NumPieces
    /\ \E id \in DOMAIN peers :
          /\ peers[id].MaxRequests = 2
          /\ Cardinality(peers[id].nextState.Requests) = 2
          /\ \E other \in DOMAIN peers \ {id} :
                peers[other].nextState.Requests # {}

\* C2: once the three passes of allocatePendingChunks are over for a piece,
\* and ever after its return, the request index of each chunk of the piece
\* is in the nextState.Requests of at most one peer, however many peers it
\* was pre-allocated to in the first pass.
C2_ChunkHeldByAtMostOnePeer ==
    \A index \in PieceIndexes : \A c \in ChunkIndexes :
       (\/ index < allocated
        \/ PassesOver /\ alloc.in.p.index = index)
       => Cardinality(Holders(RequestIndexOf(index, c))) <= 1

\* The passes are over for a piece of which a chunk was pre-allocated to two
\* peers, and one peer holds its request.
C2_Witness ==
    /\ PassesOver
    /\ \E c \in alloc.in.p.IterPendingChunks :
          /\ Len(alloc.preallocated[c]) = 2
          /\ Cardinality(Holders(RequestIndexOf(alloc.in.p.index, c))) = 1

\* A candidate that, when the walk for req reaches it, can fit a request and
\* is not choking or allows the piece fast. The walk of the third pass runs
\* after req has been taken back from the peers it was pre-allocated to.
EligibleCandidates(req) ==
    {id \in {alloc.peersForPiece[n].Id : n \in DOMAIN alloc.peersForPiece} :
        /\ Cardinality(peers[id].nextState.Requests \ {req})
              < peers[id].MaxRequests
        /\ ~peers[id].Choking \/ id \in alloc.in.PieceAllowedFast}

\* C3: when the second or the third pass processes a pending chunk, exactly
\* one peer holds the chunk's request afterwards if some candidate is
\* eligible at that moment, and none does otherwise; the holders of a
\* processed chunk's request do not change in the rest of the call or of the
\* run; and the call ends only when every pending chunk has been processed.
C3_ExactlyOnePeerIffEligible ==
    [][/\ alloc.active /\ alloc'.active =>
          \A c \in alloc'.done \ alloc.done :
             IF EligibleCandidates(RequestIndexOf(alloc.in.p.index, c)) # {}
             THEN Cardinality(HoldersAmong(peers',
                      RequestIndexOf(alloc.in.p.index, c))) = 1
             ELSE HoldersAmong(peers',
                      RequestIndexOf(alloc.in.p.index, c)) = {}
       /\ alloc.active =>
          \A c \in alloc.done :
             HoldersAmong(peers', RequestIndexOf(alloc.in.p.index, c))
                = Holders(RequestIndexOf(alloc.in.p.index, c))
       /\ alloc.active /\ ~alloc'.active =>
             alloc.in.p.IterPendingChunks \subseteq alloc.done
       /\ \A index \in 0..(allocated - 1) : \A c \in ChunkIndexes :
             HoldersAmong(peers', RequestIndexOf(index, c))
                = Holders(RequestIndexOf(index, c))]_vars

\* The third pass has taken a chunk from the choking peer it was
\* pre-allocated to and given it to another candidate, which is not
\* choking; and it has taken another chunk from the peer it was pre-allocated
\* to and, no candidate being eligible any more, left it with no peer.
C3_Witness ==
    /\ PassesOver
    /\ \E c \in alloc.done :
          /\ Len(alloc.preallocated[c]) = 1
          /\ peers[alloc.preallocated[c][1]].Choking
          /\ \E id \in Holders(RequestIndexOf(alloc.in.p.index, c)) :
                /\ alloc.preallocated[c][1] # id
                /\ ~peers[id].Choking
    /\ \E c \in alloc.done :
          /\ alloc.preallocated[c] # << >>
          /\ Holders(RequestIndexOf(alloc.in.p.index, c)) = {}

\* The requests of the chunks of the piece of the call in progress.
PieceRequests ==
    {RequestIndexOf(alloc.in.p.index, c) : c \in ChunkIndexes}

\* The candidates of the call in progress.
Candidates == {alloc.peersForPiece[n].Id : n \in DOMAIN alloc.peersForPiece}

\* Candidate A is the only one on its last requestable piece, is not choking,
\* and had room for every pending chunk when the call began; the piece is
\* not alwaysReallocate and no chunk of it was pre-allocated (no candidate
\* had an existing request for it).
LastPieceCase(A) ==
    /\ alloc.active
    /\ allocPanic = ""
    /\ ~alloc.in.p.alwaysReallocate
    /\ \A c \in ChunkIndexes : alloc.preallocated[c] = << >>
    /\ A \in Candidates
    /\ ~peers[A].Choking
    /\ peers[A].requestablePiecesRemaining = 1
    /\ \A B \in Candidates \ {A} : peers[B].requestablePiecesRemaining > 1
    /\ Cardinality(peers[A].nextState.Requests \ PieceRequests)
          + alloc.in.p.NumPendingChunks <= peers[A].MaxRequests

\* C11: in the case above every pending chunk the second pass has processed
\* is held by A and by no other peer, and the others hold no request of
\* the piece.
C11_LastPiecePeerGetsEveryChunk ==
    \A A \in DOMAIN peers :
       LastPieceCase(A) =>
          /\ \A c \in alloc.done :
                Holders(RequestIndexOf(alloc.in.p.index, c)) = {A}
          /\ \A B \in DOMAIN peers \ {A} :
                peers[B].nextState.Requests \cap PieceRequests = {}

\* The passes are over: A, of the greater Id, has both chunks of the piece,
\* and the other candidate, faster, not choking and with room, has none.
C11_Witness ==
    \E A \in DOMAIN peers :
       /\ LastPieceCase(A)
       /\ PassesOver
       /\ alloc.in.p.NumPendingChunks = 2
       /\ alloc.done = alloc.in.p.IterPendingChunks
       /\ \E B \in Candidates :
             /\ B < A
             /\ ~peers[B].Choking
             /\ peers[B].DownloadRate > peers[A].DownloadRate
             /\ peers[B].nextState.Requests = {}

\* C18: for pieces whose NumPendingChunks is the number of chunks that
\* IterPendingChunks yields, pendingChunksRemaining is 0 when the three
\* passes are over, whoever the candidates are, and the run never panics.
C18_PendingChunksRemainingIsZero ==
    /\ allocPanic = ""
    /\ PassesOver => alloc.pendingChunksRemaining = 0

\* The passes are over for a piece of two pending chunks, one pre-allocated
\* to both peers and processed by the third pass, the other processed by the
\* second pass and left with no peer.
C18_Witness ==
    /\ PassesOver
    /\ alloc.pendingChunksRemaining = 0
    /\ alloc.in.p.NumPendingChunks = 2
    /\ \E c, d \in alloc.done :
          /\ Len(alloc.preallocated[c]) = 2
          /\ alloc.preallocated[d] = << >>
          /\ Holders(RequestIndexOf(alloc.in.p.index, d)) = {}

\* Peers i and j of the sorter tie on every criterion that Less applies
\* before Age: the last-piece flag, requestsInPiece or holding req,
\* requestablePiecesRemaining, DownloadRate, and holding req again.
TieBeforeAge(i, j) ==
    /\ sorter.p.alwaysReallocate
          \/ (i.requestablePiecesRemaining = 1)
                = (j.requestablePiecesRemaining = 1)
    /\ IF sorter.p.alwaysReallocate \/ j.requestablePiecesRemaining = 1
       THEN i.requestsInPiece = j.requestsInPiece
       ELSE TRUE
    /\ i.requestablePiecesRemaining = j.requestablePiecesRemaining
    /\ i.DownloadRate = j.DownloadRate
    /\ sorter.req # {} =>
          (Deref(sorter.req) \in i.Requests)
             = (Deref(sorter.req) \in j.Requests)

\* C19 as stated: of two peers that tie before Age, the younger (of the
\* smaller Age) is Less than the other.
C19_YoungerFirst ==
    \A m, n \in DOMAIN sorter.peersForPiece :
       LET i == sorter.peersForPiece[m]
           j == sorter.peersForPiece[n]
       IN  TieBeforeAge(i, j) /\ i.Age < j.Age
              => Less(i, j, sorter.req, sorter.p)

\* C19, amended: of two peers that tie before Age, the older (of the greater
\* Age) is Less than the other, so sort.Sort puts it first.
C19_OlderFirst ==
    \A m, n \in DOMAIN sorter.peersForPiece :
       LET i == sorter.peersForPiece[m]
           j == sorter.peersForPiece[n]
       IN  TieBeforeAge(i, j) /\ i.Age > j.Age
              => /\ Less(i, j, sorter.req, sorter.p)
                 /\ ~Less(j, i, sorter.req, sorter.p)
                 /\ sorter.sorted => m < n

\* A sorted slice whose first two peers tie before Age: the first is the
\* older, though its Id is the greater.
C19_Witness ==
    /\ sorter.sorted
    /\ TieBeforeAge(sorter.peersForPiece[1], sorter.peersForPiece[2])
    /\ sorter.peersForPiece[1].Age > sorter.peersForPiece[2].Age
    /\ sorter.peersForPiece[1].Id > sorter.peersForPiece[2].Id

(***************************************************************************)
(* Properties of getDesiredRequestState and applyRequestState.             *)
(***************************************************************************)
\* A pass has run getDesiredRequestState and applyRequestState.
PassRan == rsPass.passes > 0 /\ rsPass.emitted # << >>

\* C12: the list that getDesiredRequestState returns has at most
\* nominalMaxRequests entries and no request twice.
C12_DesiredWithinNominalMaxRequests ==
    LET desired == rsPass.desired.Requests
    IN  PassRan =>
           /\ Len(desired) <= rsPeer.nominalMaxRequests
           /\ \A m, n \in DOMAIN desired : m # n => desired[m] # desired[n]

\* The peer has every piece and is not choking, so three requests are pushed
\* and the list is cut at nominalMaxRequests, two.
C12_Witness ==
    /\ PassRan
    /\ ~rsPeer.peerChoking
    /\ rsPeer.peerHasPiece = RsPieces
    /\ Len(rsPass.desired.Requests) = rsPeer.nominalMaxRequests
    /\ Len(rsPass.desired.Requests) < Cardinality(RequestIndexes)

\* C13: when the peer is choking, every request of the list for a piece the
\* peer allows fast is before every request for a piece it does not.
C13_AllowedFastFirstWhenChoking ==
    LET desired == rsPass.desired.Requests
    IN  PassRan /\ rsPeer.peerChoking =>
           \A m, n \in DOMAIN desired :
              /\ PieceOf(desired[m]) \in rsPeer.peerAllowedFast
              /\ PieceOf(desired[n]) \notin rsPeer.peerAllowedFast
              => m < n

\* The peer is choking; the first request of the list is for the piece it
\* allows fast, though another peer holds it, it is not outstanding, and its
\* piece has the lower priority and the greater index; the second is
\* outstanding and no other peer holds it.
C13_Witness ==
    /\ PassRan
    /\ rsPeer.peerChoking
    /\ Len(rsPass.desired.Requests) = 2
    /\ LET l == rsPass.desired.Requests[1]
           r == rsPass.desired.Requests[2]
       IN  /\ PieceOf(l) \in rsPeer.peerAllowedFast
           /\ PieceOf(r) \notin rsPeer.peerAllowedFast
           /\ rsPeer.t.otherRequests[l] = 1
           /\ rsPeer.t.otherRequests[r] = 0
           /\ l \notin rsPass.actual
           /\ r \in rsPass.actual
           /\ PieceOf(l) > PieceOf(r)

\* The positions of rsPass.emitted with operation op.
EmittedAt(op) == {k \in DOMAIN rsPass.emitted : rsPass.emitted[k].op = op}

\* The requests that the emitted operations op name.
EmittedArgs(op) == UNION {rsPass.emitted[k].arg : k \in EmittedAt(op)}

\* The request that the emitted operation at position k names.
EmittedRequest(k) == CHOOSE r \in rsPass.emitted[k].arg : TRUE

\* The position of request r in the list that getDesiredRequestState returned.
DesiredPosition(r) ==
    CHOOSE n \in DOMAIN rsPass.desired.Requests : rsPass.desired.Requests[n] = r

\* The requests of the list that getDesiredRequestState returned.
DesiredRequests ==
    {rsPass.desired.Requests[n] : n \in DOMAIN rsPass.desired.Requests}

\* Every write of the pass succeeded.
NoWriteFailed == \A k \in DOMAIN rsPass.emitted : rsPass.emitted[k].ok

\* C14: a pass emits setInterested first, then every cancel, then every
\* request; when it did not shuffle, the requests are emitted in the order of
\* the list that getDesiredRequestState returned.
C14_InterestThenCancelsThenRequests ==
    PassRan =>
       /\ EmittedAt("setInterested") = {1}
       /\ \A m \in EmittedAt("cancel"), n \in EmittedAt("request") : m < n
       /\ EmittedAt("shuffled") = {} =>
             \A m, n \in EmittedAt("request") :
                /\ EmittedRequest(m) \in DesiredRequests
                /\ m < n =>
                      DesiredPosition(EmittedRequest(m))
                         < DesiredPosition(EmittedRequest(n))

\* A pass without a shuffle that cancels a request and then emits both
\* requests of the list.
C14_Witness ==
    /\ PassRan
    /\ NoWriteFailed
    /\ EmittedAt("shuffled") = {}
    /\ EmittedAt("cancel") # {}
    /\ Len(rsPass.desired.Requests) = 2
    /\ EmittedArgs("request") = DesiredRequests

\* C15: in a pass where no write fails, cancel is emitted once for each
\* actual request that is not in the list and for nothing else, and request
\* is emitted only for requests of the list that were not actual requests.
C15_CancelsAndRequestsAreTheDifference ==
    PassRan /\ NoWriteFailed =>
       /\ EmittedArgs("cancel") = rsPass.actual \ DesiredRequests
       /\ Cardinality(EmittedAt("cancel")) = Cardinality(EmittedArgs("cancel"))
       /\ EmittedArgs("request") \subseteq DesiredRequests \ rsPass.actual
       /\ Cardinality(EmittedAt("request"))
             = Cardinality(EmittedArgs("request"))

\* The actual requests are {0, 1} and the list is 1 then 2: cancel is emitted
\* for 0, request for 2, and nothing for 1.
C15_Witness ==
    /\ PassRan
    /\ NoWriteFailed
    /\ rsPass.actual = {0, 1}
    /\ rsPass.desired.Requests = <<1, 2>>
    /\ EmittedArgs("cancel") = {0}
    /\ EmittedArgs("request") = {2}
    /\ rsPeer.actualRequestState.Requests = {1, 2}

\* Every request of the list is held by another peer, and the list has a
\* second entry.
EveryEntryHeldByAnother ==
    /\ PassRan
    /\ Len(rsPass.desired.Requests) >= 2
    /\ \A r \in DesiredRequests : rsPeer.t.otherRequests[r] > 0

\* The index, from 0, of the first entry of the list that is not in
\* cancelledRequests; the length of the list when there is none.
FirstNotCancelled ==
    LET desired == rsPass.desired.Requests
        open == {n \in DOMAIN desired : desired[n] \notin rsPeer.cancelledRequests}
    IN  IF open = {} THEN Len(desired)
        ELSE (CHOOSE n \in open : \A o \in open : n <= o) - 1

\* C16, as claimed: when every entry of the list is held by another peer, the
\* first entry is emitted as a request before the shuffle, and the shuffle is
\* at the second entry and leaves the first entry where it was.
C16_FirstEmittedBeforeShuffle ==
    EveryEntryHeldByAnother =>
       \A k \in EmittedAt("shuffled") :
          /\ rsPass.emitted[k].arg = {1}
          /\ rsPass.Requests[1] = rsPass.desired.Requests[1]
          /\ \E m \in EmittedAt("request") :
                m < k /\ EmittedRequest(m) = rsPass.desired.Requests[1]

\* C16, amended: when every entry of the list is held by another peer, no
\* request is emitted without a shuffle before it; the one shuffle is at the
\* first entry that is not in cancelledRequests, it leaves the entries before
\* that one where they were and permutes the rest, and the requests are
\* emitted in the shuffled order.
C16_ShuffleAtFirstNotCancelled ==
    LET desired == rsPass.desired.Requests
        i == FirstNotCancelled
    IN  EveryEntryHeldByAnother =>
           /\ EmittedAt("request") # {} => EmittedAt("shuffled") # {}
           /\ Cardinality(EmittedAt("shuffled")) <= 1
           /\ \A k \in EmittedAt("shuffled") :
                 /\ rsPass.emitted[k].arg = {i}
                 /\ \A n \in EmittedAt("request") : k < n
                 /\ \A n \in 1..i : rsPass.Requests[n] = desired[n]
                 /\ {rsPass.Requests[n] : n \in (i + 1)..Len(desired)}
                       = {desired[n] : n \in (i + 1)..Len(desired)}
                 /\ \A m, n \in EmittedAt("request") :
                       m < n =>
                          \E x, y \in DOMAIN rsPass.Requests :
                             /\ x < y
                             /\ rsPass.Requests[x] = EmittedRequest(m)
                             /\ rsPass.Requests[y] = EmittedRequest(n)

\* Both entries of the list are held by another peer and neither is
\* cancelled: the shuffle is at the first entry, before any request, and
\* swaps the two; both are then requested, the second of the list first.
C16_Witness ==
    /\ EveryEntryHeldByAnother
    /\ NoWriteFailed
    /\ FirstNotCancelled = 0
    /\ \E k \in EmittedAt("shuffled") : rsPass.emitted[k].arg = {0}
    /\ rsPass.Requests[1] = rsPass.desired.Requests[2]
    /\ rsPass.Requests[2] = rsPass.desired.Requests[1]
    /\ \E m, n \in EmittedAt("request") :
          /\ m < n
          /\ EmittedRequest(m) = rsPass.desired.Requests[2]
          /\ EmittedRequest(n) = rsPass.desired.Requests[1]

\* C17: whatever passes have run, the peer's actual requests number at most
\* its nominalMaxRequests.
C17_ActualRequestsWithinMax ==
    Cardinality(rsPeer.actualRequestState.Requests) <= rsPeer.nominalMaxRequests

\* A second pass, begun with an actual request that it cancels, emits a
\* request that brings the actual requests to nominalMaxRequests.
C17_Witness ==
    /\ PassRan
    /\ rsPass.passes = 2
    /\ rsPass.actual # {}
    /\ EmittedAt("cancel") # {}
    /\ EmittedAt("request") # {}
    /\ NoWriteFailed
    /\ Cardinality(rsPeer.actualRequestState.Requests) = rsPeer.nominalMaxRequests

\* pending(r, isCurrent) as getDesiredRequestState saw it, with the actual
\* requests the pass began with.
PendingBefore(r) ==
    pending([rsPeer EXCEPT !.actualRequestState.Requests = rsPass.actual],
            r, r \in rsPass.actual)

\* C20: pending(r, isCurrent) never falls from one entry of the list that
\* getDesiredRequestState returned to a later one, and the assertion of
\* applyRequestState does not fire.
C20_PendingNeverFalls ==
    LET desired == rsPass.desired.Requests
    IN  PassRan =>
           /\ \A m, n \in DOMAIN desired :
                 m < n => PendingBefore(desired[m]) <= PendingBefore(desired[n])
           /\ rsPass.panic = ""

\* The pieces that are yielded, that the peer has and that it does not allow
\* fast; each has a pending chunk.
NeedInterestPieces ==
    (rsPeer.t.requestablePieces \cap rsPeer.peerHasPiece)
       \ rsPeer.peerAllowedFast

\* C21: when the peer is choking, every request of the list is for a piece
\* it allows fast or was an actual request; and Interested is true exactly
\* when a yielded piece that the peer has and does not allow fast has a
\* pending chunk.
C21_ChokingListAndInterested ==
    PassRan =>
       /\ rsPeer.peerChoking =>
             \A r \in DesiredRequests :
                \/ PieceOf(r) \in rsPeer.peerAllowedFast
                \/ r \in rsPass.actual
       /\ rsPass.desired.Interested <=> NeedInterestPieces # {}

\* The peer is choking and holds no request; it has a piece it allows fast,
\* whose request is the list, and a yielded piece it does not allow fast,
\* whose requests are all left out and which still sets Interested.
C21_Witness ==
    /\ PassRan
    /\ rsPeer.peerChoking
    /\ rsPass.actual = {}
    /\ rsPeer.peerAllowedFast = {1}
    /\ NeedInterestPieces = {0}
    /\ rsPass.desired.Requests = <<2>>
    /\ rsPass.desired.Interested

\* The last operation that the pass emitted.
LastEmitted == rsPass.emitted[Len(rsPass.emitted)]

\* The pass ended early on a write that failed.
PassFailed == PassRan /\ ~rsPass.more

\* C22, as claimed: after a pass that ended early on a failed write, the
\* update-requests timer is armed.
C22_TimerArmedAfterFailedPass ==
    PassFailed => rsPeer.updateRequestsTimer

\* C22, amended: a pass that ended early on a failed write has not armed the
\* timer. After a failed mustRequest the timer is stopped; after a failed
\* setInterested or cancel it is as it was when the pass began. In both
\* cases needRequestUpdate stays set.
C22_FailedPassDoesNotArmTimer ==
    PassFailed =>
       /\ ~LastEmitted.ok
       /\ rsPeer.needRequestUpdate # ""
       /\ LastEmitted.op = "request" => ~rsPeer.updateRequestsTimer
       /\ LastEmitted.op \in {"setInterested", "cancel"} =>
             rsPeer.updateRequestsTimer = rsPass.timer

\* The timer was armed when the pass began; the pass failed in mustRequest
\* and left the timer stopped and needRequestUpdate set.
C22_Witness ==
    /\ PassFailed
    /\ rsPass.timer
    /\ LastEmitted.op = "request"
    /\ ~LastEmitted.ok
    /\ ~rsPeer.updateRequestsTimer
    /\ rsPeer.needRequestUpdate = "update"

\* The step is a call of maybeUpdateActualRequestState.
PassStep == rsPass'.passes = rsPass.passes + 1

\* C23: in every call of maybeUpdateActualRequestState, nothing is emitted
\* after an operation that failed, and the pass returns false exactly when
\* one failed; a pass that returns false leaves needRequestUpdate as it was,
\* and needRequestUpdate is cleared only by a pass that returns true; with
\* needRequestUpdate empty the call emits nothing, returns true and leaves
\* the peer as it was.
C23_FailureStopsPassAndKeepsReason ==
    [][PassStep =>
          /\ \A k \in DOMAIN rsPass'.emitted :
                ~rsPass'.emitted[k].ok => k = Len(rsPass'.emitted)
          /\ rsPass'.more
                <=> \A k \in DOMAIN rsPass'.emitted : rsPass'.emitted[k].ok
          /\ ~rsPass'.more =>
                rsPeer'.needRequestUpdate = rsPeer.needRequestUpdate
          /\ rsPeer'.needRequestUpdate # rsPeer.needRequestUpdate =>
                rsPass'.more /\ rsPeer'.needRequestUpdate = ""
          /\ rsPeer.needRequestUpdate = "" =>
                /\ rsPass'.emitted = << >>
                /\ rsPass'.more
                /\ rsPeer' = rsPeer]_vars

\* A cancel failed with another cancel and a request still to come: the
\* failed cancel is the last operation emitted, the second request to cancel
\* is still an actual request, nothing was requested and needRequestUpdate
\* is set.
C23_Witness ==
    /\ PassFailed
    /\ LastEmitted.op = "cancel"
    /\ EmittedAt("cancel") = {Len(rsPass.emitted)}
    /\ Cardinality(rsPass.actual \ DesiredRequests) = 2
    /\ rsPeer.actualRequestState.Requests = rsPass.actual
    /\ DesiredRequests \ (rsPass.actual \cup rsPeer.cancelledRequests) # {}
    /\ EmittedAt("request") = {}
    /\ rsPeer.needRequestUpdate = "update"

====
